---- MODULE Spec2Model ----
(***************************************************************************)
(* TaxTrack NG: the receipt-extraction pipeline, the CSV import adapter,   *)
(* the tax calculators and the transaction ledger, in their three build    *)
(* variants:                                                               *)
(*   "backend"  src/dashboard.js      + src/unnamed/part_001 (REST ledger) *)
(*   "offline"  src/unnamed/part_000 (lines 188-498) + src/app.js          *)
(*   "legacy"   src/unnamed/part_000 (lines 1-185)                         *)
(*                                                                         *)
(* Text is a sequence of one-character strings.  Money is an integer       *)
(* number of hundredths (kobo): 1,500.00 is 150000.                        *)
(***************************************************************************)
EXTENDS Integers, Sequences, FiniteSets, TLC

\* ------------------------------------------------------------------------
\* Characters and strings
\* ------------------------------------------------------------------------

DigitChars == <<"0", "1", "2", "3", "4", "5", "6", "7", "8", "9">>

IsDigit(c) == \E d \in 1..10 : DigitChars[d] = c

DigitVal(c) == (CHOOSE d \in 1..10 : DigitChars[d] = c) - 1

LowerChars == <<"a", "b", "c", "d", "e", "f", "g", "h", "i", "j", "k", "l", "m",
                "n", "o", "p", "q", "r", "s", "t", "u", "v", "w", "x", "y", "z">>

UpperChars == <<"A", "B", "C", "D", "E", "F", "G", "H", "I", "J", "K", "L", "M",
                "N", "O", "P", "Q", "R", "S", "T", "U", "V", "W", "X", "Y", "Z">>

IsLower(c) == \E k \in 1..26 : LowerChars[k] = c

IsUpper(c) == \E k \in 1..26 : UpperChars[k] = c

\* String.prototype.toLowerCase on one character (ASCII letters).
LowerOf(c) == IF IsUpper(c) THEN LowerChars[CHOOSE k \in 1..26 : UpperChars[k] = c]
              ELSE c

toLowerCase(s) == [k \in 1..Len(s) |-> LowerOf(s[k])]

\* The regular-expression classes \s and \w on the characters of the model.
IsSpace(c) == c = " "

IsWord(c) == IsDigit(c) \/ IsLower(c) \/ IsUpper(c) \/ c = "_"

Min(a, b) == IF a <= b THEN a ELSE b

\* s.substring(from - 1) : the characters of s from position `from` on.
Drop(s, from) == IF from > Len(s) THEN << >> ELSE SubSeq(s, from, Len(s))

\* s.substring(0, n)
Take(s, n) == SubSeq(s, 1, Min(n, Len(s)))

\* Whether `tok` occurs in s at position i.
OccursAt(s, tok, i) ==
  /\ i >= 1
  /\ i + Len(tok) - 1 <= Len(s)
  /\ \A k \in 1..Len(tok) : s[i + k - 1] = tok[k]

\* String.prototype.includes / an unanchored literal RegExp test.
Includes(s, tok) == \E i \in 1..(Len(s) + 1) : OccursAt(s, tok, i)

\* s.replace(tok, '') with a string pattern: the FIRST occurrence is removed.
\* An empty pattern matches at position 0 and removes nothing.
ReplaceFirst(s, tok) ==
  IF ~Includes(s, tok) THEN s
  ELSE LET i == CHOOSE j \in 1..(Len(s) + 1) :
                  OccursAt(s, tok, j) /\ \A h \in 1..(j - 1) : ~OccursAt(s, tok, h)
       IN  SubSeq(s, 1, i - 1) \o Drop(s, i + Len(tok))

\* s.replace(/,/g, '')
StripCommas(s) == SelectSeq(s, LAMBDA c : c # ",")

\* s.trim()
RECURSIVE TrimLeft(_)
TrimLeft(s) == IF s # << >> /\ IsSpace(Head(s)) THEN TrimLeft(Tail(s)) ELSE s

RECURSIVE TrimRight(_)
TrimRight(s) ==
  IF s # << >> /\ IsSpace(s[Len(s)]) THEN TrimRight(SubSeq(s, 1, Len(s) - 1)) ELSE s

Trim(s) == TrimRight(TrimLeft(s))

\* ------------------------------------------------------------------------
\* Numbers: parseFloat, Number -> string
\* ------------------------------------------------------------------------

\* Whole-naira values are saturated here while digits are accumulated, so that
\* an arbitrarily long digit run stays a machine integer.  Every comparison the
\* program makes is against 0, 100 or 10,000,000, all below the saturation
\* point.
SatNaira == 20000000

\* The number of leading decimal digits of s.
RECURSIVE LeadingDigits(_)
LeadingDigits(s) ==
  IF s # << >> /\ IsDigit(Head(s)) THEN 1 + LeadingDigits(Tail(s)) ELSE 0

\* The value of a digit string (most significant digit first), saturated.
RECURSIVE DigitsValue(_, _)
DigitsValue(s, acc) ==
  IF s = << >> THEN acc
  ELSE DigitsValue(Tail(s), Min(acc * 10 + DigitVal(Head(s)), SatNaira))

\* The JavaScript not-a-number value.
NaN == [nan |-> TRUE, v |-> 0]

Num(c) == [nan |-> FALSE, v |-> c]

\* parseFloat(s): leading white space is skipped, then the longest prefix that
\* is a decimal literal (sign, digits, '.', digits) is converted; NaN when
\* there is none.  The value is in hundredths; the inputs of the model carry
\* at most two decimals and no exponent part.
parseFloat(s) ==
  LET t      == TrimLeft(s)
      signed == t # << >> /\ Head(t) \in {"-", "+"}
      neg    == t # << >> /\ Head(t) = "-"
      u      == IF signed THEN Tail(t) ELSE t
      nInt   == LeadingDigits(u)
      rest   == Drop(u, nInt + 1)
      hasDot == rest # << >> /\ Head(rest) = "."
      nFrac  == IF hasDot THEN LeadingDigits(Tail(rest)) ELSE 0
      frac   == IF hasDot THEN SubSeq(Tail(rest), 1, nFrac) ELSE << >>
      kobo   == IF nFrac = 0 THEN 0
                ELSE IF nFrac = 1 THEN 10 * DigitVal(frac[1])
                ELSE 10 * DigitVal(frac[1]) + DigitVal(frac[2])
      mag    == DigitsValue(SubSeq(u, 1, nInt), 0) * 100 + kobo
  IN  IF nInt = 0 /\ nFrac = 0 THEN NaN
      ELSE Num(IF neg THEN 0 - mag ELSE mag)

\* Number(s): the whole trimmed string must be a decimal literal; the empty
\* string is 0.
NumberOf(s) ==
  LET t      == Trim(s)
      signed == t # << >> /\ Head(t) \in {"-", "+"}
      u      == IF signed THEN Tail(t) ELSE t
      nInt   == LeadingDigits(u)
      rest   == Drop(u, nInt + 1)
      hasDot == rest # << >> /\ Head(rest) = "."
      nFrac  == IF hasDot THEN LeadingDigits(Tail(rest)) ELSE 0
      used   == nInt + (IF hasDot THEN 1 + nFrac ELSE 0)
  IN  IF t = << >> THEN [nan |-> FALSE, v |-> 0]
      ELSE IF used # Len(u) THEN [nan |-> TRUE, v |-> 0]
      ELSE parseFloat(t)

\* The decimal digits of a natural number, most significant first.
RECURSIVE NatToString(_)
NatToString(n) ==
  IF n < 10 THEN <<DigitChars[n + 1]>>
  ELSE NatToString(n \div 10) \o <<DigitChars[(n % 10) + 1]>>

\* String(x) / `${x}` for a non-negative amount: no trailing zeros in the
\* fraction, no fraction at all for a whole number.
NumberToString(c) ==
  LET whole == NatToString(c \div 100)
      k     == c % 100
  IN  IF k = 0 THEN whole
      ELSE IF k % 10 = 0 THEN whole \o <<".", DigitChars[(k \div 10) + 1]>>
      ELSE whole \o <<".", DigitChars[(k \div 10) + 1], DigitChars[(k % 10) + 1]>>

\* ------------------------------------------------------------------------
\* Receipt extraction: the monetary-token patterns
\* ------------------------------------------------------------------------

\* The character class [\d,]
IsNumChar(c) == IsDigit(c) \/ c = ","

\* The length of the longest prefix of s made of [\d,]
RECURSIVE NumRun(_)
NumRun(s) == IF s # << >> /\ IsNumChar(Head(s)) THEN 1 + NumRun(Tail(s)) ELSE 0

\* One match of /[\d,]+\.?\d{0,2}/ that starts at position i (line[i] is in
\* [\d,]): the position just after it.  Every quantifier is greedy and what
\* follows it is optional, so there is no backtracking.
MatchEnd(line, i) ==
  LET j  == i + NumRun(Drop(line, i))
      j2 == IF j <= Len(line) /\ line[j] = "." THEN j + 1 ELSE j
  IN  j2 + Min(2, LeadingDigits(Drop(line, j2)))

\* line.match(/[\d,]+\.?\d{0,2}/g) || [] : the matched substrings, left to
\* right, each search resuming where the previous match ended.
RECURSIVE MatchFrom(_, _)
MatchFrom(line, i) ==
  IF i > Len(line) THEN << >>
  ELSE IF ~IsNumChar(line[i]) THEN MatchFrom(line, i + 1)
  ELSE <<SubSeq(line, i, MatchEnd(line, i) - 1)>> \o MatchFrom(line, MatchEnd(line, i))

Matches(line) == MatchFrom(line, 1)

\* The legacy pattern /(\d{2,3}(?:,\d{3})*(?:\.\d{2})?)/g: the groups ",ddd"
\* taken one after another from position j.
RECURSIVE LegacyGroupsEnd(_, _)
LegacyGroupsEnd(line, j) ==
  IF j <= Len(line) /\ line[j] = "," /\ LeadingDigits(Drop(line, j + 1)) >= 3
  THEN LegacyGroupsEnd(line, j + 4)
  ELSE j

LegacyMatchEnd(line, i) ==
  LET j  == i + Min(3, LeadingDigits(Drop(line, i)))
      j2 == LegacyGroupsEnd(line, j)
  IN  IF j2 <= Len(line) /\ line[j2] = "." /\ LeadingDigits(Drop(line, j2 + 1)) >= 2
      THEN j2 + 3
      ELSE j2

RECURSIVE LegacyMatchFrom(_, _)
LegacyMatchFrom(line, i) ==
  IF i > Len(line) THEN << >>
  ELSE IF LeadingDigits(Drop(line, i)) < 2 THEN LegacyMatchFrom(line, i + 1)
  ELSE <<SubSeq(line, i, LegacyMatchEnd(line, i) - 1)>>
         \o LegacyMatchFrom(line, LegacyMatchEnd(line, i))

LegacyMatches(line) == LegacyMatchFrom(line, 1)

\* ------------------------------------------------------------------------
\* Receipt extraction: range filter, classification, details
\* ------------------------------------------------------------------------

\* rawAmount >= 100 && rawAmount <= 10000000 (in hundredths here).  Every
\* comparison with NaN is false.
MinAmount == 100 * 100

MaxAmount == 10000000 * 100

InRange(raw) == ~raw.nan /\ raw.v >= MinAmount /\ raw.v <= MaxAmount

\* A case-insensitive literal search, /tok/i.test(s).
IncludesCI(s, tok) == Includes(toLowerCase(s), tok)

\* legacy: vat|tax|excise
LegacyTaxTokens == { <<"v", "a", "t">>, <<"t", "a", "x">>,
                     <<"e", "x", "c", "i", "s", "e">> }

\* The dashboards' list with its last word left out.
TaxTokensWithoutLevy == { <<"v", "a", "t">>, <<"t", "a", "x">>,
                          <<"e", "x", "c", "i", "s", "e">> }

\* dashboards: vat|tax|excise|levy
TaxTokens == { <<"v", "a", "t">>, <<"t", "a", "x">>,
               <<"e", "x", "c", "i", "s", "e">>, <<"l", "e", "v", "y">> }

\* dashboard.js: /vat|tax|excise|levy/i.test(line) ? 'VAT' : 'Consumption'
ClassifyBackend(line) ==
  IF \E tok \in TaxTokens : IncludesCI(line, tok) THEN "VAT" ELSE "Consumption"

\* offline dashboard: the pattern without the i flag, on line.toLowerCase().
ClassifyOffline(line) ==
  LET lineLower == toLowerCase(line)
  IN  IF \E tok \in TaxTokens : Includes(lineLower, tok) THEN "VAT" ELSE "Consumption"

\* legacy: /vat|tax|excise/i; the second test (rawAmount < 1000 && /vat|tax/i)
\* is never reached with a different outcome.
ClassifyLegacy(line, raw) ==
  IF \E tok \in LegacyTaxTokens : IncludesCI(line, tok) THEN "VAT"
  ELSE IF raw.v < 1000 * 100 /\ (\E tok \in { <<"v", "a", "t">>, <<"t", "a", "x">> } :
                                    IncludesCI(line, tok)) THEN "VAT"
  ELSE "Consumption"

Classify(v, line) == IF v = "backend" THEN ClassifyBackend(line) ELSE ClassifyOffline(line)

\* s.replace(/[^\w\s]/g, ' ')
BlankPunctuation(s) ==
  [k \in 1..Len(s) |-> IF IsWord(s[k]) \/ IsSpace(s[k]) THEN s[k] ELSE " "]

\* s.replace(/\s+/g, ' ')
RECURSIVE CollapseSpaces(_)
CollapseSpaces(s) ==
  IF s = << >> THEN << >>
  ELSE IF IsSpace(Head(s)) THEN <<" ">> \o CollapseSpaces(TrimLeft(s))
  ELSE <<Head(s)>> \o CollapseSpaces(Tail(s))

ReceiptItem == <<"R", "e", "c", "e", "i", "p", "t", " ", "I", "t", "e", "m">>

ReceiptEntry == <<"R", "e", "c", "e", "i", "p", "t", " ", "E", "n", "t", "r", "y">>

\* The cleaned text both dashboards start from.
CleanDetails(line, numStr) ==
  Take(Trim(CollapseSpaces(BlankPunctuation(ReplaceFirst(line, numStr)))), 50)

\* dashboard.js: ... .substring(0,50) || 'Receipt Item'
DetailsBackend(line, numStr) ==
  LET d == CleanDetails(line, numStr) IN IF d = << >> THEN ReceiptItem ELSE d

\* offline dashboard: if (!details || details.length < 3) details = 'Receipt Item'
DetailsOffline(line, numStr) ==
  LET d == CleanDetails(line, numStr)
  IN  IF d = << >> \/ Len(d) < 3 THEN ReceiptItem ELSE d

\* legacy: line.replace(numStr, '').trim() || 'Receipt Entry'
DetailsLegacy(line, numStr) ==
  LET d == Trim(ReplaceFirst(line, numStr)) IN IF d = << >> THEN ReceiptEntry ELSE d

Details(v, line, numStr) ==
  IF v = "backend" THEN DetailsBackend(line, numStr) ELSE DetailsOffline(line, numStr)

\* The candidates of one line, in match order, before an id is attached.
\* lineIndex counts from 0 as in the source.
\* An extraction that stops after the first match of a line.
LineCandidatesFirstOnly(v, line, lineIndex, ms) ==
  IF ms = << >> \/ ~InRange(parseFloat(StripCommas(Head(ms)))) THEN << >>
  ELSE <<[lineIndex |-> lineIndex, type |-> Classify(v, line),
          amount |-> parseFloat(StripCommas(Head(ms))).v,
          details |-> Details(v, line, Head(ms))]>>

RECURSIVE LineCandidates(_, _, _, _)
LineCandidates(v, line, lineIndex, ms) ==
  IF ms = << >> THEN << >>
  ELSE LET numStr    == Head(ms)
           rawAmount == parseFloat(StripCommas(numStr))
           rest      == LineCandidates(v, line, lineIndex, Tail(ms))
       IN  IF InRange(rawAmount)
           THEN <<[lineIndex |-> lineIndex, type |-> Classify(v, line),
                   amount |-> rawAmount.v, details |-> Details(v, line, numStr)]>> \o rest
           ELSE rest

\* legacy: every match whose value is positive.
RECURSIVE LegacyLineCandidates(_, _, _)
LegacyLineCandidates(line, idx, ms) ==
  IF ms = << >> THEN << >>
  ELSE LET numStr    == Head(ms)
           rawAmount == NumberOf(StripCommas(numStr))
           rest      == LegacyLineCandidates(line, idx, Tail(ms))
       IN  IF ~rawAmount.nan /\ rawAmount.v > 0
           THEN <<[lineIndex |-> idx, type |-> ClassifyLegacy(line, rawAmount),
                   amount |-> rawAmount.v, details |-> DetailsLegacy(line, numStr)]>> \o rest
           ELSE rest

\* text.split('\n').forEach((line, lineIndex) => ...): text is the sequence of
\* its lines; k is the 1-based position of the next line.
RECURSIVE TextCandidatesFrom(_, _, _)
TextCandidatesFrom(v, text, k) ==
  IF k > Len(text) THEN << >>
  ELSE (IF v = "legacy"
        THEN LegacyLineCandidates(text[k], k - 1, LegacyMatches(text[k]))
        ELSE LineCandidates(v, text[k], k - 1, Matches(text[k])))
       \o TextCandidatesFrom(v, text, k + 1)

TextCandidates(v, text) == TextCandidatesFrom(v, text, 1)

\* ------------------------------------------------------------------------
\* Tax calculators
\* ------------------------------------------------------------------------

\* amount * 0.075 in hundredths is 3c/40: an exact tie between two hundredths
\* when c % 40 = 20, and at least 1/40 of a hundredth away from one otherwise,
\* far more than the error of double arithmetic, so that away from ties both
\* versions return the nearest hundredth.  At a tie the double product lies
\* just above or just below the half, and the two tables below record which,
\* as IEEE-754 binary64 evaluates the two expressions, for every tie up to
\* VatTieTableMax and for the larger tie amounts the model uses.
VatTieTableMax == 40 * 100

VatTieExtra == {10300, 150100}

VatTabulated(c) == (c >= 0 /\ c <= VatTieTableMax) \/ c \in VatTieExtra

\* Ties at which Math.round(amount * 0.075 * 100) / 100 returns the lower
\* hundredth.
AppTieDown ==
  {300, 380, 660, 820, 860, 1020, 1220, 1340, 1380, 1620, 1700, 1940, 2140,
   2220, 2540, 2740, 2820, 2900, 2940, 3020, 3100, 3180, 3260, 3380, 3580,
   3780, 3940}

\* Ties at which Number((amount * 0.075).toFixed(2)) returns the upper
\* hundredth.
FallbackTieUp ==
  {180, 220, 260, 340, 420, 500, 540, 700, 740, 1180, 1500, 1540, 1580, 1660,
   1860, 1900, 1980, 2060, 2180, 2260, 2500, 2580, 2660, 2860, 3220, 3300,
   3460, 3500, 3620, 3660, 3820, 3860, 150100}

\* 3c/40 rounded to the nearest integer, a tie upwards (c >= 0).
RoundHalfUpVat(c) == 3 * (c \div 40) + ((3 * (c % 40) + 20) \div 40)

IsVatTie(c) == c % 40 = 20

\* app.js: calculateVAT(amount) { return Math.round(amount * 0.075 * 100) / 100; }
calculateVAT(c) ==
  CASE ~IsVatTie(c) -> RoundHalfUpVat(c)
    [] IsVatTie(c) /\ VatTabulated(c) /\ c \in AppTieDown -> RoundHalfUpVat(c) - 1
    [] IsVatTie(c) /\ VatTabulated(c) /\ c \notin AppTieDown -> RoundHalfUpVat(c)

\* dashboard.js: app.calculateVAT = (amount) => Number((amount * 0.075).toFixed(2));
\* installed when the app object has no calculateVAT of its own, which is the
\* case of the backend build of the app.
fallbackCalculateVAT(c) ==
  CASE ~IsVatTie(c) -> RoundHalfUpVat(c)
    [] IsVatTie(c) /\ VatTabulated(c) /\ c \in FallbackTieUp -> RoundHalfUpVat(c)
    [] IsVatTie(c) /\ VatTabulated(c) /\ c \notin FallbackTieUp -> RoundHalfUpVat(c) - 1

\* app.calculateVAT as the dashboard of build v calls it.
AppCalculateVAT(v, c) == IF v = "backend" THEN fallbackCalculateVAT(c) ELSE calculateVAT(c)

\* Number(x) || 0 : NaN and 0 give 0, any other number (negative too) itself.
NumberOrZero(x) == IF x.nan THEN 0 ELSE x.v

\* The band of the PAYE schedule: the upper bounds (naira), the marginal rates
\* (percent) and the cumulative tax at each band's lower bound (naira).
Band1Top == 300000

Band2Top == 600000

Band3Top == 1100000

Band4Top == 1600000

Band5Top == 3200000

\* The schedule with the fourth band's rate mistyped (18 for 19 percent).
BandTax500Rate(t5) ==
  IF t5 <= 0 THEN 0
  ELSE IF t5 <= 5 * Band1Top THEN 7 * t5
  ELSE IF t5 <= 5 * Band2Top THEN 500 * 21000 + 11 * (t5 - 5 * Band1Top)
  ELSE IF t5 <= 5 * Band3Top THEN 500 * 54000 + 15 * (t5 - 5 * Band2Top)
  ELSE IF t5 <= 5 * Band4Top THEN 500 * 129000 + 18 * (t5 - 5 * Band3Top)
  ELSE IF t5 <= 5 * Band5Top THEN 500 * 224000 + 21 * (t5 - 5 * Band4Top)
  ELSE 500 * 560000 + 24 * (t5 - 5 * Band5Top)

\* The schedule with the third band's cumulative tax mistyped (45000 for
\* 54000).
BandTax500Slip(t5) ==
  IF t5 <= 0 THEN 0
  ELSE IF t5 <= 5 * Band1Top THEN 7 * t5
  ELSE IF t5 <= 5 * Band2Top THEN 500 * 21000 + 11 * (t5 - 5 * Band1Top)
  ELSE IF t5 <= 5 * Band3Top THEN 500 * 45000 + 15 * (t5 - 5 * Band2Top)
  ELSE IF t5 <= 5 * Band4Top THEN 500 * 129000 + 19 * (t5 - 5 * Band3Top)
  ELSE IF t5 <= 5 * Band5Top THEN 500 * 224000 + 21 * (t5 - 5 * Band4Top)
  ELSE 500 * 560000 + 24 * (t5 - 5 * Band5Top)

\* The tax on `t5` fifths of a naira of taxable income, in 1/500 naira: each
\* branch is cumulative + (taxable - lower bound) * rate.
BandTax500(t5) ==
  IF t5 <= 0 THEN 0
  ELSE IF t5 <= 5 * Band1Top THEN 7 * t5
  ELSE IF t5 <= 5 * Band2Top THEN 500 * 21000 + 11 * (t5 - 5 * Band1Top)
  ELSE IF t5 <= 5 * Band3Top THEN 500 * 54000 + 15 * (t5 - 5 * Band2Top)
  ELSE IF t5 <= 5 * Band4Top THEN 500 * 129000 + 19 * (t5 - 5 * Band3Top)
  ELSE IF t5 <= 5 * Band5Top THEN 500 * 224000 + 21 * (t5 - 5 * Band4Top)
  ELSE 500 * 560000 + 24 * (t5 - 5 * Band5Top)

\* Math.round(n / d) for n >= 0: the nearest integer, a tie upwards.  On the
\* inputs of the model the double evaluation of the source agrees with this
\* at every exact tie.
RoundDiv(n, d) == (2 * n + d) \div (2 * d)

\* A monthly figure taken from the annual tax after its rounding.
MonthlyTaxOfRounded(tax500) == RoundDiv(RoundDiv(tax500, 500), 12)

\* monthlyTax: Math.round(tax / 12), tax being the unrounded annual tax, here
\* in 1/500 naira.
MonthlyTax(tax500) == RoundDiv(tax500, 6000)

\* app.js: calculatePAYE(grossIncome, reliefs = {}).  grossIncome is a number
\* of whole naira or NaN; each relief is a number of whole naira or NaN.
\* totalReliefs and taxableIncome are returned in hundredths, annualTax and
\* monthlyTax in naira.
calculatePAYE(grossIncome, reliefs) ==
  LET pension == NumberOrZero(reliefs.pension)
      nhf     == NumberOrZero(reliefs.nhf)
      other   == NumberOrZero(reliefs.other)
      g       == grossIncome.v
      \* 5 * standardRelief = 5 * 200000 + g ; 5 * totalReliefs
      total5  == 5 * (pension + nhf + other) + 5 * 200000 + g
      raw5    == 5 * g - total5
      t5      == IF raw5 > 0 THEN raw5 ELSE 0
      tax500  == BandTax500(t5)
  IN  IF grossIncome.nan
      THEN [grossIncome |-> grossIncome, totalReliefs |-> NaN, taxableIncome |-> NaN,
            annualTax |-> 0, monthlyTax |-> 0]
      ELSE [grossIncome |-> grossIncome, totalReliefs |-> Num(20 * total5),
            taxableIncome |-> Num(20 * t5),
            annualTax |-> RoundDiv(tax500, 500), monthlyTax |-> MonthlyTax(tax500)]

\* ------------------------------------------------------------------------
\* CSV import adapter
\* ------------------------------------------------------------------------

\* The currency sign U+20A6, one character of the text.
Naira == "NGN-sign"

\* s.split(sep): the fields between the separators (at least one field).
RECURSIVE Split(_, _)
Split(s, sep) ==
  IF \A k \in 1..Len(s) : s[k] # sep THEN <<s>>
  ELSE LET i == CHOOSE j \in 1..Len(s) : s[j] = sep /\ \A h \in 1..(j - 1) : s[h] # sep
       IN  <<SubSeq(s, 1, i - 1)>> \o Split(Drop(s, i + 1), sep)

\* c.trim().replace(/"/g, '')
CleanCol(c) == SelectSeq(Trim(c), LAMBDA x : x # "\"")

\* col.replace(/[NGN-sign,]/g, '')
StripCurrency(col) == SelectSeq(col, LAMBDA x : x # Naira /\ x # ",")

\* The loop over the columns of one row: `amount` is 0 until a column gives
\* a positive number; a column that is non-empty, whose number is NaN or 0,
\* and longer than 2 characters is assigned to `details` each time one is met.
\* (ScanCols is defined after the loop body it applies.)
RECURSIVE ScanCols(_, _, _)
\* The body of the loop for one column, numVal being
\* parseFloat(col.replace(/[NGN-sign,]/g, '')).
ScanCol(cols, amount, details, numVal) ==
  IF ~numVal.nan /\ numVal.v > 0 /\ amount = 0
  THEN ScanCols(Tail(cols), numVal.v, details)
  ELSE IF Head(cols) # << >> /\ (numVal.nan \/ numVal.v = 0) /\ Len(Head(cols)) > 2
  THEN ScanCols(Tail(cols), amount, Head(cols))
  ELSE ScanCols(Tail(cols), amount, details)

ScanCols(cols, amount, details) ==
  IF cols = << >> THEN [amount |-> amount, details |-> details]
  ELSE ScanCol(cols, amount, details, parseFloat(StripCurrency(Head(cols))))

\* `CSV Import: ${file.name}`
CsvImportDetails == <<"C", "S", "V", " ", "I", "m", "p", "o", "r", "t">>

\* lines[i].split(',').map(c => c.trim().replace(/"/g, ''))
Columns(fields) == [k \in 1..Len(fields) |-> CleanCol(fields[k])]

\* The row's transaction once the columns are scanned, r being the amount
\* and details found: none unless amount > 0.
RowTx(v, r) ==
  IF r.amount > 0
  THEN <<[type |-> "VAT", amount |-> AppCalculateVAT(v, r.amount),
          details |-> IF r.details = << >> THEN CsvImportDetails ELSE r.details]>>
  ELSE << >>

\* if (cols.length >= 2) { ... }
ColsTx(v, cols) ==
  IF Len(cols) >= 2 THEN RowTx(v, ScanCols(cols, 0, << >>)) ELSE << >>

\* One data line of the file: the transactions handed to app.addTransaction
\* (none or one).
ProcessCsvLine(v, line) == ColsTx(v, Columns(Split(line, ",")))

\* text.split('\n').filter(line => line.trim())
NonBlankLines(text) == SelectSeq(text, LAMBDA line : Trim(line) # << >>)

\* lines[0].toLowerCase().includes('date') || ...includes('amount') ? 1 : 0
IsHeader(line) ==
  \/ Includes(toLowerCase(line), <<"d", "a", "t", "e">>)
  \/ Includes(toLowerCase(line), <<"a", "m", "o", "u", "n", "t">>)

\* The data lines of a file, in order; reading lines[0] of a file without a
\* non-blank line throws, which processCSV catches: no line is processed.
CsvDataLines(text) ==
  LET lines == NonBlankLines(text)
  IN  IF lines = << >> THEN << >>
      ELSE IF IsHeader(lines[1]) THEN Tail(lines) ELSE lines

\* Whether processCSV ends in its catch block.
CsvThrows(text) == NonBlankLines(text) = << >>

\* ------------------------------------------------------------------------
\* The dashboard: state
\* ------------------------------------------------------------------------

VARIABLES
  variant,        \* the build: "backend", "offline" or "legacy"
  tesseract,      \* window.Tesseract is defined
  ocrLines,       \* the candidate lines (let ocrLines = [])
  ocrPreview,     \* the editable rows inside #ocrPreview, in document order
  confirmVisible, \* #confirmOCR is displayed
  batches,        \* the invocations of the file input's change handler
  transactions,   \* app.transactions (legacy: taxData.transactions)
  requests,       \* backend: the POST /api/tax requests without an answer yet
  edits,          \* how many edits the user has made to the rows
  last,           \* the handler step that ran last
  call            \* a calculator or parser call observed on its own

vars == <<variant, tesseract, ocrLines, ocrPreview, confirmVisible, batches,
          transactions, requests, edits, last, call>>

dashVars == <<variant, tesseract, ocrLines, ocrPreview, confirmVisible, batches,
              transactions, requests, edits, last>>

\* Bounds of the model.
MaxBatches == 2

MaxFiles == 2

MaxRnd == 2

MaxEdits == 2

MaxTx == 3

Variants == {"backend", "offline", "legacy"}

FileKinds == {"csv", "img", "other"}

\* e.target.files: up to MaxFiles files, each a CSV file (name ends in .csv),
\* an image (type image/...) or something else.
FileLists == UNION { [1..n -> FileKinds] : n \in 0..MaxFiles }

\* What the recognition engine may return for an image: the lines of the text.
TextEmpty == << << >> >>

TextVat ==
  << <<"T", "o", "t", "a", "l", " ", "V", "A", "T", ":", " ", "1", ",", "5", "0", "0", ".", "0", "0">>,
     <<"S", "u", "b", "t", "o", "t", "a", "l", " ", "1", "2", ",", "0", "0", "0">> >>

TextTwin == << <<"2", "5", "0", " ", "2", "5", "0">> >>

Texts == {TextEmpty, TextVat, TextTwin}

\* What file.text() may return for a CSV file.
CsvFuel ==
  << <<"2", "0", "2", "4", "-", "0", "1", "-", "0", "1", ",", " ", "5", "0", "0", "0", ".", "5", "0",
       ",", " ", "\"", "F", "u", "e", "l", "\"">> >>

CsvNoAmount ==
  << <<"D", "a", "t", "e", ",", "A", "m", "o", "u", "n", "t">>,
     <<"\"", "L", "a", "g", "o", "s", "\"", ",", "0", ",", "\"", "\"">> >>

CsvBlank == << << >> >>

CsvTexts == {CsvFuel, CsvNoAmount, CsvBlank}

\* What the user may type into a row's amount field, and choose or type
\* elsewhere.
AmountInputs == { << >>, <<"0">>, <<"1", "0", "3">>, <<"-", "5">> }

DetailsInputs == { <<"F", "u", "e", "l">> }

RowTypes == {"VAT", "Consumption"}

NoStep == [op |-> "none", b |-> 0, n |-> 0, tx |-> 0, req |-> 0, lines |-> 0]

Step(op, b, n) ==
  [op |-> op, b |-> b, n |-> n, tx |-> Len(transactions), req |-> Len(requests),
   lines |-> Len(ocrLines)]

NoCall == [fn |-> "none"]

DashInit ==
  /\ variant \in Variants
  /\ tesseract = FALSE
  /\ ocrLines = << >>
  /\ ocrPreview = << >>
  /\ confirmVisible = (variant = "legacy")
  /\ batches = << >>
  /\ transactions = << >>
  /\ requests = << >>
  /\ edits = 0
  /\ last = NoStep

Init == DashInit /\ call = NoCall

\* ------------------------------------------------------------------------
\* The dashboard: the change handler's loop over the files
\* ------------------------------------------------------------------------

\* Whether the loop body does anything with a file of this kind.  The
\* dashboards import a .csv file and recognise an image; the legacy page
\* recognises every file whose name does not end in .csv.
Handled(v, kind) == IF v = "legacy" THEN kind # "csv" ELSE kind \in {"csv", "img"}

\* The first file at or after position `from` the loop body acts on; 0 if none.
NextFile(v, files, from) ==
  IF \E k \in from..Len(files) : Handled(v, files[k])
  THEN CHOOSE k \in from..Len(files) :
         Handled(v, files[k]) /\ \A h \in from..(k - 1) : ~Handled(v, files[h])
  ELSE 0

\* The loop runs from file `from` up to its next await: file.text() of a CSV
\* file ("reading"), the load of the engine's script ("loading") or the
\* recognition call ("recognizing"); past the last file the handler's final
\* status step runs and the invocation is "done".
Advance(v, batch, from, tess) ==
  LET k == NextFile(v, batch.files, from)
  IN  IF k = 0 THEN [batch EXCEPT !.pc = "done", !.idx = Len(batch.files) + 1]
      ELSE IF v # "legacy" /\ batch.files[k] = "csv"
      THEN [batch EXCEPT !.pc = "reading", !.idx = k]
      ELSE [batch EXCEPT !.pc = IF tess THEN "recognizing" ELSE "loading",
                         !.idx = k, !.hasImages = TRUE]

\* The final status step: if (hasImages && ocrLines.length > 0) the confirm
\* control is displayed; the other branches only write the status text.
FinalStatus(v, batch, lines, visible) ==
  IF v # "legacy" /\ batch.pc = "done" /\ batch.hasImages /\ Len(lines) > 0
  THEN TRUE
  ELSE visible

NewBatch(files) ==
  [files |-> files, idx |-> 0, pc |-> "start", hasImages |-> FALSE, csvProcessed |-> 0,
   queue |-> << >>]

\* vatFileInput 'change': the preview is emptied, the dashboards also empty
\* ocrLines, and the loop starts.
Change(files) ==
  /\ Len(batches) < MaxBatches
  /\ LET lines == IF variant = "legacy" THEN ocrLines ELSE << >>
         b     == Advance(variant, NewBatch(files), 1, tesseract)
     IN  /\ ocrPreview' = << >>
         /\ ocrLines' = lines
         /\ batches' = Append(batches, b)
         /\ confirmVisible' = FinalStatus(variant, b, lines, confirmVisible)
         /\ last' = Step("change", Len(batches) + 1, 0)
  /\ UNCHANGED <<variant, tesseract, transactions, requests, edits, call>>

\* script.onload: the awaited promise resolves and Tesseract.recognize is called.
LoadOk(b) ==
  /\ batches[b].pc = "loading"
  /\ tesseract' = TRUE
  /\ batches' = [batches EXCEPT ![b].pc = "recognizing"]
  /\ last' = Step("loadOk", b, 0)
  /\ UNCHANGED <<variant, ocrLines, ocrPreview, confirmVisible, transactions,
                 requests, edits, call>>

\* script.onerror.  The dashboards reject the promise, catch, show a toast
\* and return, so the loop goes on; the legacy promise has no reject and
\* never settles.
LoadFail(b) ==
  /\ batches[b].pc = "loading"
  /\ LET nb == IF variant = "legacy" THEN [batches[b] EXCEPT !.pc = "hung"]
               ELSE Advance(variant, batches[b], batches[b].idx + 1, tesseract)
     IN  /\ batches' = [batches EXCEPT ![b] = nb]
         /\ confirmVisible' = FinalStatus(variant, nb, ocrLines, confirmVisible)
  /\ last' = Step("loadFail", b, batches[b].idx)
  /\ UNCHANGED <<variant, tesseract, ocrLines, ocrPreview, transactions,
                 requests, edits, call>>

\* Tesseract.recognize rejects.  The dashboards catch it and the loop goes on;
\* in the legacy page the exception leaves processReceiptEditable and the
\* handler.
RecognizeReject(b) ==
  /\ batches[b].pc = "recognizing"
  /\ LET nb == IF variant = "legacy" THEN [batches[b] EXCEPT !.pc = "crashed"]
               ELSE Advance(variant, batches[b], batches[b].idx + 1, tesseract)
     IN  /\ batches' = [batches EXCEPT ![b] = nb]
         /\ confirmVisible' = FinalStatus(variant, nb, ocrLines, confirmVisible)
  /\ last' = Step("reject", b, batches[b].idx)
  /\ UNCHANGED <<variant, tesseract, ocrLines, ocrPreview, transactions,
                 requests, edits, call>>

\* ------------------------------------------------------------------------
\* The dashboard: a recognition result arrives
\* ------------------------------------------------------------------------

\* The id of a candidate and of its row.  Dashboards:
\* `ocr-${lineIndex}-${rawAmount}-${Math.random().toString(36).substr(2,4)}`,
\* the random suffix being rnd; legacy rows: `${idx}-${rawAmount}`.
LineId(v, c, rnd) ==
  IF v = "legacy" THEN <<c.lineIndex, c.amount>> ELSE <<c.lineIndex, c.amount, rnd>>

\* The candidate line pushed onto ocrLines.
LineObj(v, c, rnd) ==
  IF v = "legacy" THEN [type |-> c.type, amount |-> c.amount, details |-> c.details]
  ELSE [id |-> LineId(v, c, rnd), type |-> c.type, amount |-> c.amount,
        details |-> c.details]

\* The editable row appended to the preview: checked, holding the candidate's
\* values.
RowOf(v, c, rnd) ==
  [id |-> LineId(v, c, rnd), checked |-> TRUE, amount |-> NumberToString(c.amount),
   type |-> c.type, details |-> c.details]

\* The random suffixes Math.random() may give to n candidates; the legacy ids
\* have none.
Suffixes(v, n) == IF v = "legacy" THEN {[k \in 1..n |-> 0]} ELSE [1..n -> 1..MaxRnd]

\* What extraction makes of each text the engine may return, per build.
Extracted == [v \in Variants |-> [text \in Texts |-> TextCandidates(v, text)]]

\* ocrLines after the candidates of one text are pushed: the backend build
\* and the legacy page start from an empty list, the offline build appends.
PushLines(v, lines, objs) == IF v = "offline" THEN lines \o objs ELSE objs

\* The preview after the rows of one text are rendered.  The backend build
\* appends them; the offline build appends them, or wipes the preview when
\* the text gave no candidate; the legacy page starts the preview afresh.
RenderRows(v, preview, rows) ==
  CASE v = "backend" -> preview \o rows
    [] v = "offline" -> IF rows = << >> THEN << >> ELSE preview \o rows
    [] v = "legacy"  -> rows

\* The confirm control after one text: the backend build shows it when there
\* are candidates and hides it when there are none, the offline build hides
\* it when there are none, the legacy page does not touch it.
ShowConfirm(v, visible, n) ==
  CASE v = "backend" -> n > 0
    [] v = "offline" -> IF n = 0 THEN FALSE ELSE visible
    [] v = "legacy"  -> visible

\* The end of processReceiptWithOCR for one file and the loop's next step,
\* nb being the invocation at its next await.
Rendered(b, nb, lines, rows, n) ==
  /\ ocrLines' = lines
  /\ ocrPreview' = RenderRows(variant, ocrPreview, rows)
  /\ batches' = [batches EXCEPT ![b] = nb]
  /\ confirmVisible' = FinalStatus(variant, nb, lines, ShowConfirm(variant, confirmVisible, n))
  /\ last' = Step("resolve", b, n)

\* The candidates of one text, with their ids, become lines and rows.
Render(b, cands, rnds) ==
  Rendered(b, Advance(variant, batches[b], batches[b].idx + 1, tesseract),
           PushLines(variant, ocrLines,
                     [k \in 1..Len(cands) |-> LineObj(variant, cands[k], rnds[k])]),
           [k \in 1..Len(cands) |-> RowOf(variant, cands[k], rnds[k])],
           Len(cands))

\* The continuation of `await Tesseract.recognize(...)` with the engine's text.
RecognizeResolve(b, text) ==
  /\ batches[b].pc = "recognizing"
  /\ \E rnds \in Suffixes(variant, Len(Extracted[variant][text])) :
       Render(b, Extracted[variant][text], rnds)
  /\ UNCHANGED <<variant, tesseract, transactions, requests, edits, call>>

\* ------------------------------------------------------------------------
\* The ledger
\* ------------------------------------------------------------------------

\* app.js addTransaction: the record is pushed onto this.transactions (and
\* saved); legacy addTransaction pushes onto taxData.transactions.
Push(list, txs) == list \o txs

\* part_001 addTransaction up to its await: one POST /api/tax per transaction,
\* `owner` being the change-handler invocation that awaits the answer (0 when
\* nobody does).
Post(reqs, txs, owner) == reqs \o [k \in 1..Len(txs) |-> [tx |-> txs[k], owner |-> owner]]

RemoveAt(q, i) == SubSeq(q, 1, i - 1) \o SubSeq(q, i + 1, Len(q))

\* ------------------------------------------------------------------------
\* The dashboard: CSV files
\* ------------------------------------------------------------------------

\* The transactions processCSV hands to app.addTransaction, in line order.
\* An import that gives up at the first row yielding nothing.
RECURSIVE CsvTxsUntilEmptyRow(_, _, _)
CsvTxsUntilEmptyRow(v, lines, k) ==
  IF k > Len(lines) \/ ProcessCsvLine(v, lines[k]) = << >> THEN << >>
  ELSE ProcessCsvLine(v, lines[k]) \o CsvTxsUntilEmptyRow(v, lines, k + 1)

RECURSIVE CsvTxsFrom(_, _, _)
CsvTxsFrom(v, lines, k) ==
  IF k > Len(lines) THEN << >>
  ELSE ProcessCsvLine(v, lines[k]) \o CsvTxsFrom(v, lines, k + 1)

CsvTxs(v, text) == CsvTxsFrom(v, CsvDataLines(text), 1)

\* What processCSV makes of each CSV file's text, per build.
Imported == [v \in Variants |-> [text \in CsvTexts |-> CsvTxs(v, text)]]

\* After processCSV returns (also from its catch block): csvProcessed++ and
\* the loop goes on.
Counted(b, nb, lines) ==
  /\ batches' = [batches EXCEPT ![b] = nb]
  /\ confirmVisible' = FinalStatus(variant, nb, lines, confirmVisible)

AfterCsv(b, lines) ==
  Counted(b, Advance(variant, [batches[b] EXCEPT !.csvProcessed = @ + 1, !.queue = << >>],
                     batches[b].idx + 1, tesseract),
          lines)

\* processCSV with the transactions of the file's rows.  The offline ledger
\* adds every row's transaction at once; the backend build awaits each add
\* in turn.
Import(b, txs) ==
  /\ Len(transactions) + Len(requests) + Len(txs) <= MaxTx
  /\ IF variant = "offline" \/ txs = << >>
     THEN /\ transactions' = Push(transactions, txs)
          /\ requests' = requests
          /\ AfterCsv(b, ocrLines)
     ELSE /\ transactions' = transactions
          /\ requests' = Post(requests, <<Head(txs)>>, b)
          /\ batches' = [batches EXCEPT ![b].pc = "posting", ![b].queue = Tail(txs)]
          /\ confirmVisible' = confirmVisible
  /\ last' = Step("csv", b, Len(txs))

\* The continuation of `await file.text()`.
CsvRead(b, text) ==
  /\ variant # "legacy"
  /\ batches[b].pc = "reading"
  /\ Import(b, Imported[variant][text])
  /\ UNCHANGED <<variant, tesseract, ocrLines, ocrPreview, edits, call>>

\* The answer to the request r, the other requests being rest.  With res.ok
\* the stored record is pushed onto app.transactions; otherwise, or on a
\* network error, nothing is.  An awaiting processCSV then posts its next row
\* or returns.
Answered(r, rest, ok) ==
  /\ transactions' = IF ok THEN Push(transactions, <<r.tx>>) ELSE transactions
  /\ IF r.owner = 0
     THEN /\ requests' = rest
          /\ UNCHANGED <<batches, confirmVisible>>
     ELSE IF batches[r.owner].queue # << >>
     THEN /\ requests' = Post(rest, <<Head(batches[r.owner].queue)>>, r.owner)
          /\ batches' = [batches EXCEPT ![r.owner].queue = Tail(@)]
          /\ UNCHANGED confirmVisible
     ELSE /\ requests' = rest
          /\ AfterCsv(r.owner, ocrLines)
  /\ last' = Step(IF ok THEN "ok" ELSE "fail", r.owner, 0)

\* The answer to a POST /api/tax.
Answer(i, ok) ==
  /\ variant = "backend"
  /\ i \in 1..Len(requests)
  /\ Answered(requests[i], RemoveAt(requests, i), ok)
  /\ UNCHANGED <<variant, tesseract, ocrLines, ocrPreview, edits, call>>

\* ------------------------------------------------------------------------
\* The dashboard: editing the rows and confirming
\* ------------------------------------------------------------------------

\* document.getElementById on a row's element: the first row, in document
\* order, that carries the id; 0 when no row does.
FindRow(rows, id) ==
  IF \E r \in 1..Len(rows) : rows[r].id = id
  THEN CHOOSE r \in 1..Len(rows) :
         rows[r].id = id /\ \A h \in 1..(r - 1) : rows[h].id # id
  ELSE 0

\* The digits of a whole number with a comma between groups of three.
RECURSIVE GroupThousands(_)
GroupThousands(d) ==
  IF Len(d) <= 3 THEN d
  ELSE GroupThousands(SubSeq(d, 1, Len(d) - 3)) \o <<",">> \o SubSeq(d, Len(d) - 2, Len(d))

\* amount.toLocaleString() of a positive amount with at most two decimals.
toLocaleString(c) ==
  LET plain == NumberToString(c)
      nInt  == LeadingDigits(plain)
  IN  GroupThousands(SubSeq(plain, 1, nInt)) \o Drop(plain, nInt + 1)

\* `${details} (Base: NGN-sign${amount.toLocaleString()})`
BaseNote(details, c) ==
  details \o <<" ", "(", "B", "a", "s", "e", ":", " ", Naira>> \o toLocaleString(c) \o <<")">>

\* A confirm that leaves the amount of a VAT row as it is.
RowCommitRaw(v, row, amount) ==
  IF amount.nan \/ ~(amount.v > 0) THEN << >>
  ELSE <<[type |-> row.type, amount |-> amount.v, details |-> row.details]>>

\* A confirm that does not look at the checkbox.
FoundTxUnchecked(v, rows, r) ==
  IF r = 0 THEN << >>
  ELSE IF ~(parseFloat(rows[r].amount).v > 0) THEN << >>
  ELSE <<[type |-> rows[r].type, amount |-> parseFloat(rows[r].amount).v,
          details |-> rows[r].details]>>

\* The transaction of a checked row whose amount input reads `amount`:
\* none unless amount > 0; a VAT row's amount goes through calculateVAT and
\* its details get the base annotation.
RowCommit(v, row, amount) ==
  IF amount.nan \/ ~(amount.v > 0) THEN << >>
  ELSE IF row.type = "VAT"
  THEN <<[type |-> "VAT", amount |-> AppCalculateVAT(v, amount.v),
          details |-> BaseNote(row.details, amount.v)]>>
  ELSE <<[type |-> row.type, amount |-> amount.v, details |-> row.details]>>

\* if (checkbox?.checked && amountInput && typeSelect && detailsInput), r being
\* the row found under the line's id (0 if none).
FoundTx(v, rows, r) ==
  IF r = 0 THEN << >>
  ELSE IF ~rows[r].checked THEN << >>
  ELSE RowCommit(v, rows[r], parseFloat(rows[r].amount))

\* The body of the dashboards' ocrLines.forEach for one line: the transaction
\* handed to app.addTransaction, if any.
LineTx(v, rows, line) == FoundTx(v, rows, FindRow(rows, line.id))

\* Number(x) * 0.075 and Number(x), in fortieths of a kobo, so that both are
\* whole numbers of them.
LegacyAmount(type, amount) ==
  IF amount.nan THEN NaN
  ELSE IF type = "VAT" THEN Num(3 * amount.v) ELSE Num(40 * amount.v)

\* Legacy: a checked row is committed whatever its amount reads; any type
\* other than VAT is committed as Consumption.
LegacyFoundTx(rows, r) ==
  IF r = 0 THEN << >>
  ELSE IF ~rows[r].checked THEN << >>
  ELSE <<[type |-> IF rows[r].type = "VAT" THEN "VAT" ELSE "Consumption",
          amount |-> LegacyAmount(rows[r].type, NumberOf(rows[r].amount)),
          details |-> rows[r].details]>>

\* The body of the legacy forEach for the line at array index idx: the row is
\* looked up under `${idx}-${line.amount}`.
LegacyLineTx(rows, line, idx) == LegacyFoundTx(rows, FindRow(rows, <<idx, line.amount>>))

\* The transactions a click on the confirm control hands to addTransaction,
\* in the order of ocrLines.
RECURSIVE ConfirmTxs(_, _, _, _)
ConfirmTxs(v, rows, lines, k) ==
  IF k > Len(lines) THEN << >>
  ELSE (IF v = "legacy" THEN LegacyLineTx(rows, lines[k], k - 1)
        ELSE LineTx(v, rows, lines[k]))
       \o ConfirmTxs(v, rows, lines, k + 1)

\* The calls of addTransaction a click makes: the offline ledger and the
\* legacy page push at once, the backend build posts and does not await.
Commit(txs) ==
  /\ Len(transactions) + Len(requests) + Len(txs) <= MaxTx
  /\ IF variant = "backend"
     THEN /\ requests' = Post(requests, txs, 0)
          /\ transactions' = transactions
     ELSE /\ transactions' = Push(transactions, txs)
          /\ requests' = requests
  /\ last' = Step("confirm", 0, Len(txs))

\* confirmBtn 'click'.  The dashboards then empty the preview and ocrLines
\* and hide the control; the legacy page empties the preview only.
Confirm ==
  /\ confirmVisible
  /\ Commit(ConfirmTxs(variant, ocrPreview, ocrLines, 1))
  /\ ocrPreview' = << >>
  /\ ocrLines' = IF variant = "legacy" THEN ocrLines ELSE << >>
  /\ confirmVisible' = (variant = "legacy")
  /\ UNCHANGED <<variant, tesseract, batches, edits, call>>

\* The user ticks or unticks a row's checkbox.
ToggleCheck(r) ==
  /\ edits < MaxEdits
  /\ r \in 1..Len(ocrPreview)
  /\ ocrPreview' = [ocrPreview EXCEPT ![r].checked = ~@]
  /\ edits' = edits + 1
  /\ last' = Step("edit", 0, r)
  /\ UNCHANGED <<variant, tesseract, ocrLines, confirmVisible, batches, transactions,
                 requests, call>>

\* The user types into a row's amount input.
EditAmount(r, s) ==
  /\ edits < MaxEdits
  /\ r \in 1..Len(ocrPreview)
  /\ ocrPreview[r].amount # s
  /\ ocrPreview' = [ocrPreview EXCEPT ![r].amount = s]
  /\ edits' = edits + 1
  /\ last' = Step("edit", 0, r)
  /\ UNCHANGED <<variant, tesseract, ocrLines, confirmVisible, batches, transactions,
                 requests, call>>

\* The user picks the other option of a row's type select.
EditType(r, t) ==
  /\ edits < MaxEdits
  /\ r \in 1..Len(ocrPreview)
  /\ ocrPreview[r].type # t
  /\ ocrPreview' = [ocrPreview EXCEPT ![r].type = t]
  /\ edits' = edits + 1
  /\ last' = Step("edit", 0, r)
  /\ UNCHANGED <<variant, tesseract, ocrLines, confirmVisible, batches, transactions,
                 requests, call>>

\* The user types into a row's details input.
EditDetails(r, s) ==
  /\ edits < MaxEdits
  /\ r \in 1..Len(ocrPreview)
  /\ ocrPreview[r].details # s
  /\ ocrPreview' = [ocrPreview EXCEPT ![r].details = s]
  /\ edits' = edits + 1
  /\ last' = Step("edit", 0, r)
  /\ UNCHANGED <<variant, tesseract, ocrLines, confirmVisible, batches, transactions,
                 requests, call>>

Batches == 1..Len(batches)

Rows == 1..Len(ocrPreview)

DashNext ==
  \/ \E files \in FileLists : Change(files)
  \/ \E b \in Batches : LoadOk(b)
  \/ \E b \in Batches : LoadFail(b)
  \/ \E b \in Batches : RecognizeReject(b)
  \/ \E b \in Batches, text \in Texts : RecognizeResolve(b, text)
  \/ \E b \in Batches, text \in CsvTexts : CsvRead(b, text)
  \/ \E i \in 1..Len(requests), ok \in BOOLEAN : Answer(i, ok)
  \/ Confirm
  \/ \E r \in Rows : ToggleCheck(r)
  \/ \E r \in Rows, s \in AmountInputs : EditAmount(r, s)
  \/ \E r \in Rows, t \in RowTypes : EditType(r, t)
  \/ \E r \in Rows, s \in DetailsInputs : EditDetails(r, s)
Next == DashNext

Spec == Init /\ [][Next]_vars

\* One selection of files, reviewed: the user edits the rows and confirms.
ReviewNext ==
  \/ \E files \in FileLists : batches = << >> /\ Change(files)
  \/ \E b \in Batches : LoadOk(b)
  \/ \E b \in Batches : LoadFail(b)
  \/ \E b \in Batches : RecognizeReject(b)
  \/ \E b \in Batches, text \in Texts : RecognizeResolve(b, text)
  \/ \E b \in Batches, text \in CsvTexts : CsvRead(b, text)
  \/ \E i \in 1..Len(requests), ok \in BOOLEAN : Answer(i, ok)
  \/ Confirm
  \/ \E r \in Rows : ToggleCheck(r)
  \/ \E r \in Rows, s \in AmountInputs : EditAmount(r, s)
  \/ \E r \in Rows, t \in RowTypes : EditType(r, t)
  \/ \E r \in Rows, s \in DetailsInputs : EditDetails(r, s)

SpecReview == Init /\ [][ReviewNext]_vars

\* Selections that may overlap, the rows left as extraction made them.
OverlapNext ==
  \/ \E files \in FileLists : Change(files)
  \/ \E b \in Batches : LoadOk(b)
  \/ \E b \in Batches : LoadFail(b)
  \/ \E b \in Batches : RecognizeReject(b)
  \/ \E b \in Batches, text \in Texts : RecognizeResolve(b, text)
  \/ \E b \in Batches, text \in CsvTexts : CsvRead(b, text)
  \/ \E i \in 1..Len(requests), ok \in BOOLEAN : Answer(i, ok)
  \/ Confirm

SpecOverlap == Init /\ [][OverlapNext]_vars

\* ------------------------------------------------------------------------
\* Extraction, CSV rows and the PAYE calculator on their own
\* ------------------------------------------------------------------------

\* The concatenation of a sequence of strings.
RECURSIVE Concat(_)
Concat(parts) == IF parts = << >> THEN << >> ELSE Head(parts) \o Concat(Tail(parts))

\* parts.join(sep)
RECURSIVE Join(_, _)
Join(parts, sep) ==
  IF Len(parts) <= 1 THEN Concat(parts)
  ELSE Head(parts) \o <<sep>> \o Join(Tail(parts), sep)

MaxSegments == 3

\* The pieces a recognised line is made of: words with and without a tax
\* token, in mixed case, and numbers below, inside and above the amount range.
Segments ==
  { <<"V", "A", "T">>, <<"L", "e", "v", "y">>, <<"t", "A", "x">>,
    <<"E", "x", "c", "i", "s", "e">>, <<"I", "t", "e", "m">>, <<" ">>,
    <<"2", "5", "0">>, <<"1", ",", "5", "0", "0", ".", "0", "0">>, <<"5", "0">>,
    <<"1", "0", "0", "0", "0", "0", "0", "0">>, <<".", "0", "1">>, <<"9", "9">> }

Lines == { Concat(parts) : parts \in UNION { [1..n -> Segments] : n \in 0..MaxSegments } }

\* One recognised line is given to the build's extraction.
ExtractInit ==
  /\ DashInit
  /\ call \in [fn : {"extract"}, line : Lines, done : {FALSE}, out : {<< >>}]

DoExtract ==
  /\ call.fn = "extract"
  /\ ~call.done
  /\ call' = [call EXCEPT !.done = TRUE, !.out = TextCandidates(variant, <<call.line>>)]
  /\ UNCHANGED dashVars

SpecExtract == ExtractInit /\ [][DoExtract]_vars

MaxFields == 3

\* The fields a CSV row is made of.
CsvFields ==
  { <<"2", "0", "2", "4", "-", "0", "1", "-", "0", "1">>,
    <<" ", "5", "0", "0", "0", ".", "5", "0">>,
    <<" ", "\"", "F", "u", "e", "l", " ", "p", "u", "r", "c", "h", "a", "s", "e", "\"">>,
    <<"0">>, <<Naira, "2", "5", "0">>, <<"a", "b">>, << >>,
    <<"L", "a", "g", "o", "s">> }

CsvRows == { Join(fields, ",") : fields \in UNION { [1..n -> CsvFields] : n \in 1..MaxFields } }

\* One data row is given to the dashboard's CSV import.
CsvInit ==
  /\ DashInit
  /\ variant # "legacy"
  /\ call \in [fn : {"csv"}, row : CsvRows, done : {FALSE}, out : {<< >>}]

DoCsvRow ==
  /\ call.fn = "csv"
  /\ ~call.done
  /\ call' = [call EXCEPT !.done = TRUE, !.out = ProcessCsvLine(variant, call.row)]
  /\ UNCHANGED dashVars

SpecCSV == CsvInit /\ [][DoCsvRow]_vars

\* Gross incomes: around each point where the taxable income of a payer
\* without reliefs reaches a band's bound, and a grid.
PayeDelta == 3

GrossStep == 125000

MaxGrossSteps == 41

GrossEdges == {0, 250000, 625000, 1000000, 1625000, 2250000, 4250000}

\* Gross incomes whose annual tax lies just below a whole naira that is six
\* more than a multiple of twelve (taxable 80 and 84: tax 5.60 and 5.88).
GrossNearHalfMonth == {250100, 250105}

GrossInputs ==
  { e + d : e \in GrossEdges, d \in (0 - PayeDelta)..PayeDelta }
    \cup { k * GrossStep : k \in 0..MaxGrossSteps }
    \cup GrossNearHalfMonth

ReliefInputs ==
  { [pension |-> Num(0), nhf |-> Num(0), other |-> Num(0)],
    [pension |-> NaN, nhf |-> Num(50), other |-> Num(0)],
    [pension |-> Num(80000), nhf |-> Num(0), other |-> Num(20000)],
    [pension |-> Num(0 - 100000), nhf |-> Num(0), other |-> Num(0)] }

\* calculatePAYE is called once on a gross income and reliefs.
PayeInit ==
  /\ DashInit
  /\ variant = "offline"
  /\ call \in [fn : {"paye"}, grossIncome : GrossInputs, reliefs : ReliefInputs,
               done : {FALSE}, out : {<< >>}]

DoPaye ==
  /\ call.fn = "paye"
  /\ ~call.done
  /\ call' = [call EXCEPT !.done = TRUE,
                          !.out = calculatePAYE(Num(call.grossIncome), call.reliefs)]
  /\ UNCHANGED dashVars

SpecPAYE == PayeInit /\ [][DoPaye]_vars

\* One call of each of the two calculateVAT on an amount in hundredths, drawn
\* from the amounts whose ties are tabulated.
VatAmounts == (0 .. VatTieTableMax) \cup VatTieExtra

VatInit ==
  /\ DashInit
  /\ variant = "backend"
  /\ call \in [fn : {"vat"}, amount : VatAmounts, done : {FALSE}, out : {<< >>}]

DoVat ==
  /\ call.fn = "vat"
  /\ ~call.done
  /\ call' = [call EXCEPT !.done = TRUE,
                          !.out = [app |-> calculateVAT(call.amount),
                                   fallback |-> fallbackCalculateVAT(call.amount)]]
  /\ UNCHANGED dashVars

SpecVAT == VatInit /\ [][DoVat]_vars

\* One CSV file of up to MaxCsvLines lines is given to processCSV; the call
\* yields the transactions handed to addTransaction, in order, and whether
\* the error toast of the catch block was shown.
MaxCsvLines == 3

CsvFileLines ==
  { <<"D", "a", "t", "e", ",", "A", "m", "o", "u", "n", "t">>,
    <<"\"", "L", "a", "g", "o", "s", " ", "O", "f", "f", "i", "c", "e", "\"", ",", "0", ",", "\"", "\"">>,
    <<"F", "u", "e", "l", ",", Naira, "2", "5", "0">>,
    <<"T", "o", "l", "l", ",", "1", "0", "3">>,
    <<" ">> }

CsvFiles == UNION { [1..n -> CsvFileLines] : n \in 1..MaxCsvLines }

CsvFileInit ==
  /\ DashInit
  /\ variant # "legacy"
  /\ call \in [fn : {"csvfile"}, text : CsvFiles, done : {FALSE}, out : {<< >>}]

DoCsvFile ==
  /\ call.fn = "csvfile"
  /\ ~call.done
  /\ call' = [call EXCEPT !.done = TRUE,
                          !.out = [txs |-> CsvTxs(variant, call.text),
                                   error |-> CsvThrows(call.text)]]
  /\ UNCHANGED dashVars

SpecCsvFile == CsvFileInit /\ [][DoCsvFile]_vars

\* getTaxSummary's switch without the break of its first case: a PAYE amount
\* runs on into the VAT sum.
AddToSummaryFallThrough(summary, tx) ==
  CASE tx.type = "PAYE" -> [summary EXCEPT !.paye = @ + tx.amount, !.vat = @ + tx.amount]
    [] tx.type = "VAT" -> [summary EXCEPT !.vat = @ + tx.amount]
    [] tx.type = "Consumption" -> [summary EXCEPT !.consumption = @ + tx.amount]
    [] OTHER -> summary

\* The body of getTaxSummary's forEach: switch (tx.type), a type other than
\* the three cases adding nothing.
AddToSummary(summary, tx) ==
  CASE tx.type = "PAYE" -> [summary EXCEPT !.paye = @ + tx.amount]
    [] tx.type = "VAT" -> [summary EXCEPT !.vat = @ + tx.amount]
    [] tx.type = "Consumption" -> [summary EXCEPT !.consumption = @ + tx.amount]
    [] OTHER -> summary

RECURSIVE SummaryFrom(_, _, _)
SummaryFrom(txs, k, summary) ==
  IF k > Len(txs) THEN summary
  ELSE SummaryFrom(txs, k + 1, AddToSummary(summary, txs[k]))

\* app.js getTaxSummary over this.transactions.
\* app.js getTaxSummary over this.transactions, its last statement being
\* summary.total = summary.paye + summary.vat + summary.consumption
WithTotal(summary) ==
  [summary EXCEPT !.total = summary.paye + summary.vat + summary.consumption]

getTaxSummary(txs) ==
  WithTotal(SummaryFrom(txs, 1, [paye |-> 0, vat |-> 0, consumption |-> 0, total |-> 0,
                                 count |-> Len(txs)]))

\* transactions.filter(t => t.type === type).reduce((sum, t) => sum + t.amount, 0)
RECURSIVE Reduce(_, _)
Reduce(txs, sum) == IF txs = << >> THEN sum ELSE Reduce(Tail(txs), sum + Head(txs).amount)

FilterReduce(txs, type) == Reduce(SelectSeq(txs, LAMBDA t : t.type = type), 0)

\* Legacy updateSummary: the three totals it stores in taxData and shows on
\* the cards; it computes no total and no count.
updateSummary(txs) ==
  [paye |-> FilterReduce(txs, "PAYE"), vat |-> FilterReduce(txs, "VAT"),
   consumption |-> FilterReduce(txs, "Consumption")]

\* One summary of a ledger of up to MaxLedger transactions.  addTransaction
\* stores any type it is given, so a type outside the three cases is among
\* the inputs.
MaxLedger == 3

LedgerTypes == {"PAYE", "VAT", "Consumption", "Levy"}

LedgerAmounts == {0, 773, 25000}

LedgerTxs == [type : LedgerTypes, amount : LedgerAmounts, details : {<< >>}]

Ledgers == UNION { [1..n -> LedgerTxs] : n \in 0..MaxLedger }

SummaryInit ==
  /\ DashInit
  /\ variant = "offline"
  /\ call \in [fn : {"summary"}, ledger : Ledgers, done : {FALSE}, out : {<< >>}]

DoSummary ==
  /\ call.fn = "summary"
  /\ ~call.done
  /\ call' = [call EXCEPT !.done = TRUE,
                          !.out = [summary |-> getTaxSummary(call.ledger),
                                   legacy |-> updateSummary(call.ledger)]]
  /\ UNCHANGED dashVars

SpecSummary == SummaryInit /\ [][DoSummary]_vars

\* ------------------------------------------------------------------------
\* The offline ledger and its copy in localStorage
\* ------------------------------------------------------------------------

\* The JavaScript null, as a number read back from JSON may be.
Null == [null |-> TRUE]

\* JSON.stringify of a number: its decimal text, or null for NaN (and for
\* null itself).
JsonOfNumber(n) ==
  IF n = Null \/ n.nan THEN [json |-> "null", v |-> 0] ELSE [json |-> "number", v |-> n.v]

\* JSON.parse of that text.
NumberOfJson(j) == IF j.json = "null" THEN Null ELSE Num(j.v)

\* JSON.stringify(this.transactions): the text written to localStorage, one
\* object per transaction.
Stringify(txs) ==
  [k \in 1..Len(txs) |-> [id |-> txs[k].id, type |-> txs[k].type,
                          amount |-> JsonOfNumber(txs[k].amount),
                          details |-> txs[k].details]]

\* JSON.parse(data) in loadTransactions.
Parse(data) ==
  [k \in 1..Len(data) |-> [id |-> data[k].id, type |-> data[k].type,
                           amount |-> NumberOfJson(data[k].amount),
                           details |-> data[k].details]]

\* Bounds and inputs of the ledger specification: the number of operations,
\* the ids Date.now() and Math.random() may produce, and what a caller may
\* pass as a transaction's amount.
MaxLedgerOps == 3

MaxIds == 2

LedgerAmountInputs == { <<"1", "0", "3">>, <<"-", "5">>, <<"a", "b">> }

LedgerInit ==
  /\ DashInit
  /\ variant = "offline"
  /\ call = [fn |-> "ledger", storage |-> << >>, ops |-> 0, writesOk |-> TRUE]

\* saveTransactions: the list is written whole, or setItem throws and the
\* stored text stays as it was.
Saved(txs, ok) ==
  call' = [call EXCEPT !.storage = IF ok THEN Stringify(txs) ELSE @,
                       !.ops = @ + 1,
                       !.writesOk = ok]

\* app.js addTransaction: amount is Number(transaction.amount).
AddTx(id, type, amount, ok) ==
  /\ call.fn = "ledger"
  /\ call.ops < MaxLedgerOps
  /\ transactions' = Push(transactions, <<[id |-> id, type |-> type,
                                           amount |-> NumberOf(amount), details |-> << >>]>>)
  /\ Saved(transactions', ok)
  /\ UNCHANGED <<variant, tesseract, ocrLines, ocrPreview, confirmVisible, batches,
                 requests, edits, last>>

\* app.js deleteTransaction(id)
DeleteTx(id, ok) ==
  /\ call.fn = "ledger"
  /\ call.ops < MaxLedgerOps
  /\ transactions' = SelectSeq(transactions, LAMBDA tx : tx.id # id)
  /\ Saved(transactions', ok)
  /\ UNCHANGED <<variant, tesseract, ocrLines, ocrPreview, confirmVisible, batches,
                 requests, edits, last>>

\* A reload of the page: the constructor's loadTransactions.
Reload ==
  /\ call.fn = "ledger"
  /\ call.ops < MaxLedgerOps
  /\ transactions' = Parse(call.storage)
  /\ call' = [call EXCEPT !.ops = @ + 1]
  /\ UNCHANGED <<variant, tesseract, ocrLines, ocrPreview, confirmVisible, batches,
                 requests, edits, last>>

LedgerNext ==
  \/ \E id \in 1..MaxIds, type \in {"VAT", "PAYE"}, amount \in LedgerAmountInputs,
        ok \in BOOLEAN : AddTx(id, type, amount, ok)
  \/ \E id \in 1..MaxIds, ok \in BOOLEAN : DeleteTx(id, ok)
  \/ Reload

SpecLedger == LedgerInit /\ [][LedgerNext]_vars

\* ------------------------------------------------------------------------
\* The backend app: session, cache and remote store
\* ------------------------------------------------------------------------

\* The number of calls and answers of one session, and the transactions a
\* caller may add.
MaxSessionOps == 4

SessionTxs == { [type |-> "VAT", amount |-> 773, details |-> << >>],
                [type |-> "Consumption", amount |-> 25000, details |-> << >>] }

\* The dashboard page of a logged-in user: this.user is set, the cache is
\* empty and the remote store holds what the user stored earlier.  `page`
\* tells whether the page is still loaded.
SessionInit ==
  /\ DashInit
  /\ variant = "backend"
  /\ \E stored \in SessionTxs :
       call = [fn |-> "session", user |-> TRUE, page |-> TRUE, server |-> <<stored>>,
               ops |-> 0, op |-> "none"]

SessionRest == <<variant, tesseract, ocrLines, ocrPreview, confirmVisible, batches, edits, last>>

\* part_001 addTransaction up to its await: nothing without a user and token,
\* else a POST /api/tax.
SessionAdd(tx) ==
  /\ call.fn = "session" /\ call.page /\ call.ops < MaxSessionOps
  /\ requests' = IF call.user THEN Append(requests, [kind |-> "add", tx |-> tx]) ELSE requests
  /\ call' = [call EXCEPT !.ops = @ + 1, !.op = "add"]
  /\ UNCHANGED <<transactions, SessionRest>>

\* part_001 fetchTransactions up to its await: [] without a user and token,
\* else a GET /api/tax.
SessionFetch ==
  /\ call.fn = "session" /\ call.page /\ call.ops < MaxSessionOps
  /\ requests' = IF call.user THEN Append(requests, [kind |-> "fetch", tx |-> << >>])
                 ELSE requests
  /\ call' = [call EXCEPT !.ops = @ + 1, !.op = "fetch"]
  /\ UNCHANGED <<transactions, SessionRest>>

\* The continuation of a request's await.  An ok answer to a POST is the
\* record the store added, pushed onto this.transactions; an ok answer to a
\* GET is the store's list, which replaces this.transactions.  this.user is
\* not looked at again.
SessionAnswer(i, ok) ==
  /\ call.fn = "session" /\ call.page /\ call.ops < MaxSessionOps
  /\ i \in 1..Len(requests)
  /\ requests' = RemoveAt(requests, i)
  /\ transactions' =
       IF ~ok THEN transactions
       ELSE IF requests[i].kind = "add" THEN Push(transactions, <<requests[i].tx>>)
       ELSE call.server
  /\ call' = [call EXCEPT !.ops = @ + 1, !.op = "answer",
                          !.server = IF ok /\ requests[i].kind = "add"
                                     THEN Append(@, requests[i].tx) ELSE @]
  /\ UNCHANGED SessionRest

\* part_001 logout: the stored login is removed, this.user = null, and the
\* navigation to login.html is started.  this.transactions is not touched.
Logout ==
  /\ call.fn = "session" /\ call.page /\ call.user
  /\ call' = [call EXCEPT !.user = FALSE, !.ops = @ + 1, !.op = "logout"]
  /\ UNCHANGED <<transactions, requests, SessionRest>>

\* The navigation completes: the page and its app object are gone.
Unload ==
  /\ call.fn = "session" /\ call.page /\ ~call.user
  /\ transactions' = << >>
  /\ requests' = << >>
  /\ call' = [call EXCEPT !.page = FALSE, !.op = "unload"]
  /\ UNCHANGED SessionRest

SessionNext ==
  \/ \E tx \in SessionTxs : SessionAdd(tx)
  \/ SessionFetch
  \/ \E i \in 1..MaxSessionOps, ok \in BOOLEAN : SessionAnswer(i, ok)
  \/ Logout
  \/ Unload

SpecSession == SessionInit /\ [][SessionNext]_vars

\* ------------------------------------------------------------------------
\* Properties
\* ------------------------------------------------------------------------

\* Whether the line holds one of the words vat, tax, excise, levy, its
\* letters in either case.
SameLetter(c, d) == c = d \/ (IsUpper(c) /\ LowerOf(c) = d)

HasTaxWord(line) ==
  \E tok \in { <<"v", "a", "t">>, <<"t", "a", "x">>, <<"e", "x", "c", "i", "s", "e">>,
               <<"l", "e", "v", "y">> } :
    \E i \in 1..Len(line) :
      /\ i + Len(tok) - 1 <= Len(line)
      /\ \A k \in 1..Len(tok) : SameLetter(line[i + k - 1], tok[k])

\* C6: every candidate line extraction creates has
\* 100 <= amount <= 10,000,000, whatever the recognised text.
C6_AmountsInRange ==
  (call.fn = "extract" /\ call.done) =>
    \A k \in 1..Len(call.out) :
      call.out[k].amount >= 100 * 100 /\ call.out[k].amount <= 10000000 * 100

\* C7: the dashboards classify per line: every candidate of a line that
\* holds vat, tax, excise or levy in any letter case has initial type VAT,
\* every candidate of any other line has initial type Consumption.
C7_ClassifiedPerLine ==
  (call.fn = "extract" /\ call.done /\ variant # "legacy") =>
    \A k \in 1..Len(call.out) :
      call.out[k].type = IF HasTaxWord(call.line) THEN "VAT" ELSE "Consumption"

\* A line with a mixed-case tax word gave two candidates, both VAT.
C7_Witness ==
  /\ call.fn = "extract" /\ call.done /\ variant # "legacy"
  /\ Len(call.out) = 2
  /\ call.out[1].type = "VAT" /\ call.out[2].type = "VAT"
  /\ Includes(call.line, <<"L", "e", "v", "y">>)

\* The field of a CSV row that is, on its own, a positive number once
\* quotes, currency symbols and thousands separators are stripped.
IsAmountField(f) ==
  LET n == NumberOf(StripCurrency(CleanCol(f)))
  IN  StripCurrency(CleanCol(f)) # << >> /\ ~n.nan /\ n.v > 0

FirstAmountField(fields) ==
  LET k == CHOOSE j \in 1..Len(fields) :
             IsAmountField(fields[j]) /\ \A h \in 1..(j - 1) : ~IsAmountField(fields[h])
  IN  NumberOf(StripCurrency(CleanCol(fields[k]))).v

FuelRow ==
  <<"2", "0", "2", "4", "-", "0", "1", "-", "0", "1", ",",
    " ", "5", "0", "0", "0", ".", "5", "0", ",",
    " ", "\"", "F", "u", "e", "l", " ", "p", "u", "r", "c", "h", "a", "s", "e", "\"">>

\* C2: CSV import takes as a row's amount the first field that is a positive
\* number and commits calculateVAT of it as one VAT transaction; the row
\* 2024-01-01, 5000.50, "Fuel purchase" is committed as VAT 375.04.
C2_FirstNumberField ==
  (call.fn = "csv" /\ call.done) =>
    /\ (Len(Split(call.row, ",")) >= 2 /\ \E j \in 1..Len(Split(call.row, ",")) :
                                            IsAmountField(Split(call.row, ",")[j]))
         => /\ Len(call.out) = 1
            /\ call.out[1].type = "VAT"
            /\ call.out[1].amount
                 = AppCalculateVAT(variant, FirstAmountField(Split(call.row, ",")))
    /\ call.row = FuelRow
         => Len(call.out) = 1 /\ call.out[1].type = "VAT" /\ call.out[1].amount = 37504

\* C10: for gross incomes 0 <= g1 <= g2 and the same reliefs, the annual tax
\* of g1 is at most the annual tax of g2.
C10_AnnualTaxMonotone ==
  (call.fn = "paye" /\ call.done /\ call.grossIncome >= 0) =>
    \A g2 \in GrossInputs :
      g2 >= call.grossIncome =>
        call.out.annualTax <= calculatePAYE(Num(g2), call.reliefs).annualTax

\* The tax of a gross income that is taxed, and strictly below that of a
\* larger one.
C10_Witness ==
  /\ call.fn = "paye" /\ call.done /\ call.grossIncome >= 0
  /\ call.out.annualTax > 0
  /\ \E g2 \in GrossInputs :
       g2 > call.grossIncome
         /\ call.out.annualTax < calculatePAYE(Num(g2), call.reliefs).annualTax

\* The row the page shows for a candidate line: the first row that carries
\* the line's id; 0 if there is none.
ShownRow(line) ==
  IF \E r \in Rows : ocrPreview[r].id = line.id
  THEN CHOOSE r \in Rows : ocrPreview[r].id = line.id
                             /\ \A h \in 1..(r - 1) : ocrPreview[h].id # line.id
  ELSE 0

\* The candidate lines (positions in ocrLines) whose row is ticked.
SelectedLines ==
  { k \in 1..Len(ocrLines) :
      ShownRow(ocrLines[k]) # 0 /\ ocrPreview[ShownRow(ocrLines[k])].checked }

\* ... and whose amount input reads as a positive number.
PositiveLines ==
  { k \in SelectedLines :
      LET a == parseFloat(ocrPreview[ShownRow(ocrLines[k])].amount)
      IN  ~a.nan /\ a.v > 0 }

\* The records a step hands to the ledger: the offline ledger's new
\* transactions, the backend build's new requests.
Handed ==
  IF variant = "backend"
  THEN [k \in 1..(Len(requests') - Len(requests)) |-> requests'[Len(requests) + k].tx]
  ELSE SubSeq(transactions', Len(transactions) + 1, Len(transactions'))

RECURSIVE PositiveFrom(_)
PositiveFrom(k) ==
  IF k > Len(ocrLines) THEN << >>
  ELSE (IF k \in PositiveLines THEN <<k>> ELSE << >>) \o PositiveFrom(k + 1)

\* Whether record tx is what the claim asks for the edited row: a VAT row
\* gives calculateVAT of the edited amount and the edited details followed by
\* an annotation with the base amount (its digits, however grouped); any other row gives the edited amount
\* and details as they are.
CommitsRow(tx, row) ==
  LET a == parseFloat(row.amount).v
  IN  /\ tx.type = row.type
      /\ row.type = "VAT" =>
           /\ tx.amount = AppCalculateVAT(variant, a)
           /\ Len(tx.details) > Len(row.details)
           /\ SubSeq(tx.details, 1, Len(row.details)) = row.details
           /\ Includes(StripCommas(Drop(tx.details, Len(row.details) + 1)),
                       NumberToString(a))
      /\ row.type # "VAT" => tx.amount = a /\ tx.details = row.details

C9_ClearedAfterConfirm ==
  last.op = "confirm" => (ocrLines = << >> /\ ocrPreview = << >>)

\* C4: after the engine's load or a recognition fails for a file, the loop of
\* that selection is at a later file or past its final status step.
C4_FailureIsolated ==
  last.op \in {"reject", "loadFail"} =>
    /\ batches[last.b].pc \in {"reading", "loading", "recognizing", "posting", "done"}
    /\ batches[last.b].idx > last.n

\* C3: at most one recognition call is in flight.
C3_OneRecognition ==
  variant # "legacy" =>
    Cardinality({ b \in Batches : batches[b].pc = "recognizing" }) <= 1

\* C5: on the dashboards the confirm control is displayed only while the
\* candidate list is non-empty.
C5_ConfirmNeedsCandidates ==
  (variant # "legacy" /\ confirmVisible) => ocrLines # << >>

\* The progressive schedule as the claim gives it: each band's upper bound
\* (naira; the last band has none) and marginal rate (percent).
ScheduleTops == <<300000, 600000, 1100000, 1600000, 3200000>>

ScheduleRates == <<7, 11, 15, 19, 21, 24>>

\* The lower bound of band i.
ScheduleLower(i) == IF i = 1 THEN 0 ELSE ScheduleTops[i - 1]

\* The band of a taxable income of t5 fifths of a naira: the first whose upper
\* bound is not below it.
ScheduleBand(t5) ==
  IF \E i \in 1..Len(ScheduleTops) : t5 <= 5 * ScheduleTops[i]
  THEN CHOOSE i \in 1..Len(ScheduleTops) :
         t5 <= 5 * ScheduleTops[i] /\ \A h \in 1..(i - 1) : t5 > 5 * ScheduleTops[h]
  ELSE Len(ScheduleRates)

\* The cumulative tax at the lower bound of band i, in 1/500 naira: the tax
\* of every band below it, taken whole.
RECURSIVE ScheduleCumulative500(_)
ScheduleCumulative500(i) ==
  IF i = 1 THEN 0
  ELSE ScheduleCumulative500(i - 1)
         + ScheduleRates[i - 1] * 5 * (ScheduleTops[i - 1] - ScheduleLower(i - 1))

\* cumulative + rate x (amount above the band's lower bound), in 1/500 naira,
\* rounded to the nearest naira.
ScheduleTax(t5) ==
  LET i      == ScheduleBand(t5)
      tax500 == ScheduleCumulative500(i) + ScheduleRates[i] * (t5 - 5 * ScheduleLower(i))
  IN  IF t5 <= 0 THEN 0 ELSE (tax500 + 250) \div 500

\* C11: annualTax is the rounded value of cumulative tax at the previous
\* band bound + marginal rate x the amount above it, a taxable income on a
\* band's upper bound being taxed in that band; gross 1,000,000 without
\* reliefs gives taxable income 600,000 and annual tax 54,000.
C11_BandFormula ==
  (call.fn = "paye" /\ call.done) =>
    /\ call.out.annualTax = ScheduleTax(call.out.taxableIncome.v \div 20)
    /\ (call.grossIncome = 1000000 /\ call.reliefs.pension = Num(0)
          /\ call.reliefs.nhf = Num(0) /\ call.reliefs.other = Num(0))
         => (call.out.taxableIncome = Num(600000 * 100) /\ call.out.annualTax = 54000)

\* A taxable income exactly on the fourth band's upper bound, taxed at that
\* band's rate.
C11_Witness ==
  /\ call.fn = "paye" /\ call.done
  /\ call.out.taxableIncome = Num(1600000 * 100)
  /\ call.out.annualTax = 224000

\* C12: calculateVAT(amount) is amount x 0.075 rounded to two decimal places
\* for every non-negative amount, calculateVAT(0) = 0, and the calculateVAT of
\* the app and the fallback calculateVAT of the dashboard return the same
\* value for every amount.  In hundredths amount x 0.075 is 3c/40; between two
\* hundredths the nearer one is the rounded value, and at an exact half the
\* statement is read with the half rounded up, as Math.round does.
C12_VatRounded ==
  (call.fn = "vat" /\ call.done) =>
    /\ call.out.app = RoundHalfUpVat(call.amount)
    /\ call.amount = 0 => call.out.app = 0
    /\ call.out.fallback = call.out.app

\* The part of C12 that does not depend on how a half is rounded: the two
\* versions agree with each other.
C12_SameValue ==
  (call.fn = "vat" /\ call.done) => call.out.fallback = call.out.app

\* Away from the exact halves both versions return the nearest hundredth.
C12_NearestOffTies ==
  (call.fn = "vat" /\ call.done /\ ~IsVatTie(call.amount)) =>
    /\ call.out.app = RoundHalfUpVat(call.amount)
    /\ call.out.fallback = call.out.app

\* Whether a field of the row parses to a positive number.
HasPositiveField(row) ==
  \E i \in 1..Len(Split(row, ",")) :
    LET n == parseFloat(StripCurrency(CleanCol(Split(row, ",")[i])))
    IN  ~n.nan /\ n.v > 0

\* The data rows of the call's file: its non-blank lines after the header.
CallDataRows == CsvDataLines(call.text)

\* C13: a CSV row in which no field parses to a positive number adds no
\* transaction and reports no error, and the remaining rows of the same file
\* are still processed: the file yields exactly what its rows with a positive
\* field yield, each as if it were alone, in order, and no error is shown.
C13_RowWithoutAmountSkipped ==
  (call.fn = "csvfile" /\ call.done
     /\ \E i \in 1..Len(CallDataRows) : ~HasPositiveField(CallDataRows[i])) =>
    /\ ~call.out.error
    /\ \A i \in 1..Len(CallDataRows) :
         ~HasPositiveField(CallDataRows[i]) => ProcessCsvLine(variant, CallDataRows[i]) = << >>
    /\ Len(call.out.txs) =
         Cardinality({i \in 1..Len(CallDataRows) : HasPositiveField(CallDataRows[i])})
    /\ \A i \in 1..Len(CallDataRows) :
         HasPositiveField(CallDataRows[i]) =>
           LET j == Cardinality({h \in 1..i : HasPositiveField(CallDataRows[h])})
           IN  <<call.out.txs[j]>> = ProcessCsvLine(variant, CallDataRows[i])

\* The row "Lagos Office",0,"" stands between two rows with an amount, and
\* both are imported.
C13_Witness ==
  /\ call.fn = "csvfile" /\ call.done
  /\ Len(call.text) = 3
  /\ ~HasPositiveField(call.text[2])
  /\ Includes(call.text[2], <<"L", "a", "g", "o", "s">>)
  /\ HasPositiveField(call.text[1]) /\ HasPositiveField(call.text[3])
  /\ call.text[1] # call.text[3]
  /\ Len(call.out.txs) = 2
  /\ ~call.out.error

\* The ledger before a step is the beginning of the ledger after it.
LedgerExtended ==
  /\ Len(transactions') >= Len(transactions)
  /\ SubSeq(transactions', 1, Len(transactions)) = transactions

\* C14: a ledger add appends exactly one new record at the end of the list
\* and leaves the earlier transactions and their order as they were.  Every
\* step keeps the old list as the beginning of the new one; a step in which
\* the offline addTransaction ran n times lengthens it by n, and a step in
\* which a backend addTransaction returned lengthens it by one.
C14_AddAppendsOne ==
  [][ /\ LedgerExtended
      /\ (variant # "backend" /\ last'.op \in {"csv", "confirm"}) =>
           Len(transactions') = Len(transactions) + last'.n
      /\ (variant = "backend" /\ last'.op \in {"ok", "fail"}) =>
           Len(transactions') = Len(transactions) + 1 ]_vars

\* The same without the backend build: addTransaction of app.js.
C14_OfflineAddAppendsOne ==
  [][ /\ LedgerExtended
      /\ (variant # "backend" /\ last'.op \in {"csv", "confirm"}) =>
           Len(transactions') = Len(transactions) + last'.n ]_vars

\* C15: when the persistence write of a ledger add fails (storage write
\* error, network error) the failure is caught and the in-memory list keeps
\* the new transaction.  For the backend build the write is the POST
\* /api/tax: after a step in which it failed, the list is longer than it was
\* before the step.
C15_FailedWriteKeepsTransaction ==
  last.op = "fail" => Len(transactions) > last.tx

TaxTypes == {"PAYE", "VAT", "Consumption"}

\* Whether a ledger amount is a number not below zero.  The legacy page
\* stores what Number() read, which may be NaN; the dashboards store numbers.
AmountNonNegative(v, amount) ==
  IF v = "legacy" THEN ~amount.nan /\ amount.v >= 0 ELSE amount >= 0

\* C16: in every state reachable through receipt confirmation and CSV
\* import, every transaction in the ledger has amount >= 0 and a type in
\* {PAYE, VAT, Consumption}.
C16_LedgerWellFormed ==
  \A i \in 1..Len(transactions) :
    /\ transactions[i].type \in TaxTypes
    /\ AmountNonNegative(variant, transactions[i].amount)

\* The same for the two dashboards only.
C16_DashboardLedgerWellFormed ==
  variant # "legacy" => C16_LedgerWellFormed

\* The sum of the amounts of the transactions of a ledger at the indices in S.
RECURSIVE SumAt(_, _)
SumAt(ledger, S) ==
  IF S = {} THEN 0
  ELSE LET i == CHOOSE x \in S : TRUE IN ledger[i].amount + SumAt(ledger, S \ {i})

TypeSum(ledger, type) == SumAt(ledger, {i \in 1..Len(ledger) : ledger[i].type = type})

\* C17: for any ledger content the summary has paye, vat and consumption
\* equal to the sums of amount over the transactions of type PAYE, VAT and
\* Consumption, total = paye + vat + consumption and count = the number of
\* transactions; the legacy updateSummary computes the same three sums.
C17_SummarySums ==
  (call.fn = "summary" /\ call.done) =>
    /\ call.out.summary.paye = TypeSum(call.ledger, "PAYE")
    /\ call.out.summary.vat = TypeSum(call.ledger, "VAT")
    /\ call.out.summary.consumption = TypeSum(call.ledger, "Consumption")
    /\ call.out.summary.total =
         call.out.summary.paye + call.out.summary.vat + call.out.summary.consumption
    /\ call.out.summary.count = Len(call.ledger)
    /\ call.out.legacy.paye = TypeSum(call.ledger, "PAYE")
    /\ call.out.legacy.vat = TypeSum(call.ledger, "VAT")
    /\ call.out.legacy.consumption = TypeSum(call.ledger, "Consumption")

\* A ledger of three transactions with a PAYE one, two VAT ones and one the
\* summary counts without adding.
C17_Witness ==
  /\ call.fn = "summary" /\ call.done
  /\ Len(call.ledger) = 3
  /\ call.ledger[1].type = "PAYE" /\ call.ledger[2].type = "VAT"
  /\ call.ledger[3].type = "Levy"
  /\ call.out.summary = [paye |-> 25000, vat |-> 773, consumption |-> 0,
                         total |-> 25773, count |-> 3]

\* The unrounded annual tax of the schedule in 1/500 naira.
ScheduleTax500(t5) ==
  IF t5 <= 0 THEN 0
  ELSE ScheduleCumulative500(ScheduleBand(t5))
         + ScheduleRates[ScheduleBand(t5)] * (t5 - 5 * ScheduleLower(ScheduleBand(t5)))

\* The integer nearest to n / d, a half upwards (n >= 0, d > 0).
Nearest(n, d) ==
  CHOOSE q \in {n \div d, n \div d + 1} : 2 * d * q - d <= 2 * n /\ 2 * n < 2 * d * q + d

\* C18 as stated: monthlyTax equals the returned, already rounded annualTax
\* divided by 12 and rounded to the nearest integer.
C18_MonthlyFromRoundedAnnual ==
  (call.fn = "paye" /\ call.done) =>
    call.out.monthlyTax = Nearest(call.out.annualTax, 12)

\* C18 as the code has it: monthlyTax is the annual tax before its rounding,
\* divided by 12 and rounded to the nearest integer; it is never more than one
\* away from the rounded twelfth of the returned annualTax.
C18_MonthlyFromUnroundedTax ==
  (call.fn = "paye" /\ call.done) =>
    /\ call.out.monthlyTax = Nearest(ScheduleTax500(call.out.taxableIncome.v \div 20), 6000)
    /\ call.out.monthlyTax <= Nearest(call.out.annualTax, 12)
    /\ call.out.monthlyTax >= Nearest(call.out.annualTax, 12) - 1

\* Taxable income 80: tax 5.60, annualTax 6 whose twelfth rounds to 1, and
\* monthlyTax 0.
C18_Witness ==
  /\ call.fn = "paye" /\ call.done
  /\ call.out.taxableIncome = Num(80 * 100)
  /\ call.out.annualTax = 6
  /\ call.out.monthlyTax = 0

\* The number of digits of a text.
DigitCount(s) == Cardinality({i \in 1..Len(s) : IsDigit(s[i])})

RECURSIVE DigitsIn(_)
DigitsIn(ms) == IF ms = << >> THEN 0 ELSE DigitCount(Head(ms)) + DigitsIn(Tail(ms))

\* The value of a numeric token, its thousands separators removed.
TokenValue(numStr) == parseFloat(StripCommas(numStr))

\* The numeric tokens of a line whose value is in range, left to right.
InRangeTokens(line) == SelectSeq(Matches(line), LAMBDA m : InRange(TokenValue(m)))

\* The scenario's candidates: VAT 1,500 on line 0, Consumption 12,000 on line 1.
IsVatScenario(cs) ==
  /\ Len(cs) = 2
  /\ cs[1].type = "VAT" /\ cs[1].amount = 1500 * 100 /\ cs[1].lineIndex = 0
  /\ cs[2].type = "Consumption" /\ cs[2].amount = 12000 * 100 /\ cs[2].lineIndex = 1

\* C19: the dashboards' extraction creates exactly one candidate per
\* in-range numeric token, left to right, with the thousands separators
\* removed from the amount and the row selected; every digit of the line
\* belongs to one token; the text "Total VAT: 1,500.00" / "Subtotal 12,000"
\* yields exactly {VAT, 1500} then {Consumption, 12000}.
C19_OneCandidatePerToken ==
  (call.fn = "extract" /\ call.done /\ variant # "legacy") =>
    /\ DigitsIn(Matches(call.line)) = DigitCount(call.line)
    /\ Len(call.out) = Len(InRangeTokens(call.line))
    /\ \A k \in 1..Len(call.out) :
         /\ call.out[k].amount = TokenValue(InRangeTokens(call.line)[k]).v
         /\ call.out[k].lineIndex = 0
         /\ RowOf(variant, call.out[k], 1).checked
         /\ RowOf(variant, call.out[k], 1).amount = NumberToString(call.out[k].amount)
    /\ IsVatScenario(Extracted[variant][TextVat])

\* A line with two in-range tokens, the second with thousands separators,
\* gave two candidates in that order.
C19_Witness ==
  /\ call.fn = "extract" /\ call.done /\ variant # "legacy"
  /\ Len(Matches(call.line)) = 2
  /\ Len(call.out) = 2
  /\ call.out[1].amount = 250 * 100
  /\ call.out[2].amount = 1500 * 100

\* The candidate lines and the preview rows correspond one to one, in order.
LinesMatchRows ==
  /\ Len(ocrLines) = Len(ocrPreview)
  /\ \A k \in 1..Len(ocrLines) :
       k <= Len(ocrPreview) /\ ocrPreview[k].id = ocrLines[k].id

\* C20: when the recognition of the last image of a selection has been
\* handled and the loop is over, the candidate list holds the candidates of
\* every recognised file (those it held before the last file and those of the
\* last file), and candidate lines and preview rows correspond one to one.
C20_CandidatesMatchRows ==
  (variant # "legacy" /\ last.op = "resolve" /\ batches[last.b].pc = "done") =>
    /\ Len(ocrLines) = last.lines + last.n
    /\ LinesMatchRows

\* The same for a selection with a single image file.
C20_SingleImageMatchesRows ==
  (variant # "legacy" /\ last.op = "resolve" /\ batches[last.b].pc = "done"
     /\ Cardinality({k \in 1..Len(batches[last.b].files) : batches[last.b].files[k] = "img"}) = 1) =>
    /\ Len(ocrLines) = last.lines + last.n
    /\ LinesMatchRows

\* Every element of the sequence a is an element of the sequence b.
AllAmong(a, b) == \A k \in 1..Len(a) : \E h \in 1..Len(b) : a[k] = b[h]

\* C21: once a new file selection has started, a recognition call of an
\* earlier selection that completes adds no candidate line: the step that
\* handles its result leaves the candidate list without any line it did not
\* hold before.
C21_StaleRecognitionAddsNothing ==
  [][ (variant # "legacy" /\ last'.op = "resolve" /\ last'.b < Len(batches')) =>
        /\ Len(ocrLines') <= Len(ocrLines)
        /\ AllAmong(ocrLines', ocrLines) ]_vars

\* C22: within one extraction run the ids of the candidates are pairwise
\* distinct, so that each id selects exactly its own editable row: no two
\* rows of the preview carry the same id.
C22_RowIdsDistinct ==
  \A i \in 1..Len(ocrPreview) : \A j \in 1..Len(ocrPreview) :
    i # j => ocrPreview[i].id # ocrPreview[j].id

\* The same for the two dashboards only, whose ids end in a random suffix.
C22_DashboardRowIdsDistinct ==
  variant # "legacy" => C22_RowIdsDistinct

\* C23: offline ledger: while the storage writes succeed, the list held in
\* localStorage equals the in-memory list, so that a reload yields the same
\* list in the same order.
C23_StorageMirrorsMemory ==
  (call.fn = "ledger" /\ call.writesOk) => Parse(call.storage) = transactions

\* The same for ledgers whose amounts are all numbers.
C23_FiniteAmountsMirrored ==
  (call.fn = "ledger" /\ call.writesOk
     /\ \A k \in 1..Len(transactions) : transactions[k].amount \notin {NaN, Null}) =>
    Parse(call.storage) = transactions

\* The details the k-th candidate of the call's line is to have: the cleaned
\* text, or the placeholder when that is shorter than 3 characters.
DetailsOrPlaceholder(k) ==
  IF Len(CleanDetails(call.line, InRangeTokens(call.line)[k])) < 3 THEN ReceiptItem
  ELSE CleanDetails(call.line, InRangeTokens(call.line)[k])

\* C24: a candidate's details is the line with the matched number removed,
\* punctuation blanked, white space collapsed, trimmed and cut to 50
\* characters, and the fixed placeholder whenever that result is empty or
\* shorter than 3 characters.
C24_DetailsOrPlaceholder ==
  (call.fn = "extract" /\ call.done /\ variant # "legacy") =>
    \A k \in 1..Len(call.out) : call.out[k].details = DetailsOrPlaceholder(k)

\* The same for the offline dashboard only.
C24_OfflineDetailsOrPlaceholder ==
  (call.fn = "extract" /\ call.done /\ variant = "offline") =>
    \A k \in 1..Len(call.out) : call.out[k].details = DetailsOrPlaceholder(k)

\* Whether a cleaned field does not parse as a number and is longer than 2
\* characters.
IsDetailsField(col) == parseFloat(StripCurrency(col)).nan /\ Len(col) > 2

\* The first such field of a row's cleaned fields, or the import's default
\* text when there is none.
FirstDetailsField(cols) ==
  IF \E j \in 1..Len(cols) : IsDetailsField(cols[j])
  THEN cols[CHOOSE j \in 1..Len(cols) :
              IsDetailsField(cols[j]) /\ \A h \in 1..(j - 1) : ~IsDetailsField(cols[h])]
  ELSE CsvImportDetails

\* C25: the details committed for a CSV row is the first field, scanning left
\* to right, that is non-numeric and longer than 2 characters; later such
\* fields do not replace it.
C25_FirstTextFieldIsDetails ==
  (call.fn = "csv" /\ call.done /\ call.out # << >>) =>
    call.out[1].details = FirstDetailsField(Columns(Split(call.row, ",")))

\* The same for rows with at most one such field.
C25_OnlyTextFieldIsDetails ==
  (call.fn = "csv" /\ call.done /\ call.out # << >>
     /\ Cardinality({j \in 1..Len(Split(call.row, ",")) :
                       IsDetailsField(Columns(Split(call.row, ","))[j])}) <= 1) =>
    call.out[1].details = FirstDetailsField(Columns(Split(call.row, ",")))

\* An input that is negative or not a number replaced by 0.
ZeroIfGarbage(x) == IF x.nan \/ x.v < 0 THEN Num(0) ELSE x

ZeroGarbage(reliefs) ==
  [pension |-> ZeroIfGarbage(reliefs.pension), nhf |-> ZeroIfGarbage(reliefs.nhf),
   other |-> ZeroIfGarbage(reliefs.other)]

\* C26: calculatePAYE treats every negative or non-numeric gross income and
\* relief as 0: the result equals the result for the inputs with those values
\* replaced by 0, and taxableIncome and annualTax are never negative.
C26_GarbageInputsAreZero ==
  (call.fn = "paye" /\ call.done) =>
    /\ call.out = calculatePAYE(ZeroIfGarbage(Num(call.grossIncome)), ZeroGarbage(call.reliefs))
    /\ call.out.taxableIncome.v >= 0
    /\ call.out.annualTax >= 0

\* The same for a gross income and reliefs none of which is negative.
C26_NonNumericReliefsAreZero ==
  (call.fn = "paye" /\ call.done /\ call.grossIncome >= 0
     /\ call.reliefs.pension.v >= 0 /\ call.reliefs.nhf.v >= 0 /\ call.reliefs.other.v >= 0) =>
    /\ call.out = calculatePAYE(Num(call.grossIncome), ZeroGarbage(call.reliefs))
    /\ call.out.taxableIncome.v >= 0
    /\ call.out.annualTax >= 0

\* C27: backend build: after logout the client's transaction list holds no
\* transaction of the logged-out user, and add and fetch calls made after
\* logout change neither the list nor the requests in flight.
C27_LogoutInvalidatesCache ==
  [][ /\ (call'.fn = "session" /\ ~call'.user) => transactions' = << >>
      /\ (call.fn = "session" /\ ~call.user /\ call'.op \in {"add", "fetch"}) =>
           UNCHANGED <<transactions, requests>> ]_vars

\* The second half alone: calls made after logout change nothing.
C27_CallsAfterLogoutChangeNothing ==
  [][ (call.fn = "session" /\ ~call.user /\ call'.op \in {"add", "fetch"}) =>
        UNCHANGED <<transactions, requests>> ]_vars

\* The answered request is the earliest pending request of a confirm action
\* (owner 0), and its transaction is appended to the list.
OldestConfirmAnswered ==
  \E i \in 1..Len(requests) :
    /\ requests[i].owner = 0
    /\ requests' = RemoveAt(requests, i)
    /\ transactions' = Append(transactions, requests[i].tx)
    /\ \A j \in 1..(i - 1) : requests[j].owner # 0

\* C28: backend build: when the confirm handler refreshes the display its
\* transactions are all in the list, and the transactions of a confirm action
\* enter the list in the order of their candidate lines, whatever the order
\* of the store's answers.
C28_ConfirmKeepsOrderAndCompletes ==
  [][ /\ (variant = "backend" /\ last'.op = "confirm") =>
           Len(transactions') = Len(transactions) + last'.n
      /\ (variant = "backend" /\ last'.op = "ok" /\ last'.b = 0) =>
           OldestConfirmAnswered ]_vars

\* The order half alone.
C28_AnswersInCandidateOrder ==
  [][ (variant = "backend" /\ last'.op = "ok" /\ last'.b = 0) =>
        OldestConfirmAnswered ]_vars

\* The same two properties in the builds that commit without a remote store.
C28_LocalConfirmKeepsOrderAndCompletes ==
  [][ (variant # "backend" /\ last'.op = "confirm") =>
        /\ Len(transactions') = Len(transactions) + last'.n
        /\ SubSeq(transactions', 1, Len(transactions)) = transactions
        /\ SubSeq(transactions', Len(transactions) + 1, Len(transactions')) =
             ConfirmTxs(variant, ocrPreview, ocrLines, 1) ]_vars

====
